---- MODULE Spec2Model ----
(***************************************************************************)
(* Domain-architecture resolution of TCDB-Preprocess-Pipeline:             *)
(*   - merge_overlapping_domains / DomainService.merge_overlapping_domains *)
(*   - is_overlap and score_domain                                         *)
(*   - the rescue-family pipeline: FamilyService._get_systems,             *)
(*     Family._process_systems and RescueFamily.filter_domains             *)
(*   - System.fill_holes and System.get_holes                              *)
(*   - cli.main.process_families                                           *)
(*   - System._identify_holes and DomainService.find_inter_domain_regions  *)
(*   - Family statistics and FamilyVisualizer.plot_architecture            *)
(*                                                                         *)
(* Conventions.                                                            *)
(*   Optional[x] is a sequence of length <= 1: None is <<>>, x is <<x>>.   *)
(*   An e-value is a code: 0 is the float 0.0 and v >= 1 is the float      *)
(*   e^(v - EOne), so that < on codes is < on the floats and -ln of the    *)
(*   float of code v is EOne - v.                                          *)
(*   A fraction (coverage, score) is a pair <<num, den>> with den > 0.     *)
(***************************************************************************)
EXTENDS Integers, Sequences, FiniteSets, TLC

VARIABLES
    mDomains,        \* DomainService.merge_overlapping_domains: argument
    merged_tuples,   \* ... the list returned by file_utils.merge_overlapping_domains
    merged_domains,  \* ... the Domain list it returns
    mpc,             \* ... "call" before, "done" after
    dom1, dom2,      \* is_overlap: the two hits
    mutual_overlap,  \* is_overlap: the threshold, a fraction
    oResult,         \* is_overlap: the returned value (<<>> before the call)
    opc,             \* is_overlap: "call" before, "done" after
    pc,              \* rescue family: the step of RescueFamily.__init__ reached
    idx,             \* rescue family: number of systems the current pass has done
    merge_overlapping, \* Family.merge_overlapping
    rescue_data,     \* RescueFamily.rescue_data: the hit rows of each system
    systems,         \* Family.systems, a list of System records
    votes,           \* filter_domains: votes, a dict kept in insertion order
    sorted_scores,   \* filter_domains: sorted_scores, a list of (id, score)
    statistics,      \* Family.statistics['domain_frequencies']
    characteristic_domains, \* Family.characteristic_domains
    char_domain_map, \* FamilyVisualizer.plot_architecture: char_domain_map (<<>> before the call)
    hsys,            \* fill_holes / get_holes: the System they are called on
    hfilled,         \* ... System.domains after the first fill_holes (<<>> before)
    hargs,           \* ... the arguments <<thresh, margin>> of get_holes (<<>> before)
    hpc,             \* ... "new", "filled", "refilled", "named" or "raised"
    batch,           \* process_families: what happens to each family of the batch
    config_dict,     \* process_families: config_dict, plot_types and data_file
    bidx,            \* process_families: number of families the loop has taken
    visited,         \* process_families: the families the loop body has started
    csv_rows,        \* process_families: csv_rows
    bpc,             \* process_families: "loop" or "returned"
    fDomains,        \* find_inter_domain_regions: the argument domains
    fLength,         \* ... the argument protein_length
    fHoles,          \* ... the returned list, or what the call raised (<<>> before)
    fpc              \* ... "call" before, "done" after

vars == <<mDomains, merged_tuples, merged_domains, mpc,
          dom1, dom2, mutual_overlap, oResult, opc,
          pc, idx, merge_overlapping, rescue_data, systems, votes, sorted_scores,
          statistics, characteristic_domains, char_domain_map,
          hsys, hfilled, hargs, hpc,
          batch, config_dict, bidx, visited, csv_rows, bpc,
          fDomains, fLength, fHoles, fpc>>

----------------------------------------------------------------------------
(* Bounds of the checked inputs *)

MaxPos == 4
MaxLen == 3
MaxOvPos == 12
PipePos == 3
MaxSystems == 2
MaxFamilyHits == 3
MaxSystemHits == 3
MaxRankedHits == 5
MaxBatch == 3
HolePos == 4
MaxHoleDomains == 2
MaxThresh == 2
MaxMargin == 2
MaxRows == 2
IdentifyPos == 4
MaxIdentifyDomains == 3
MaxIdentifyThreshold == 3
MaxIdentifyMargin == 1
RegionPos == 4
MaxRegionDomains == 3
FamilyPos == 5
MaxFamilySystems == 3

----------------------------------------------------------------------------
(* Program constants *)

EOne == 3
DefaultProteinLength == 1000
MutualOverlapNum == 1
MutualOverlapDen == 5
NlogSentinel == 1000000
HoleThreshold == 50
HoleMargin == 10
CharThresholdNum == 1
CharThresholdDen == 2

None == <<>>
Some(x) == <<x>>

----------------------------------------------------------------------------
(* Arithmetic helpers *)

Max(a, b) == IF a >= b THEN a ELSE b
Min(a, b) == IF a <= b THEN a ELSE b

FracLeq(p, q) == p[1] * q[2] <= q[1] * p[2]
FracLess(p, q) == p[1] * q[2] < q[1] * p[2]
FracEq(p, q) == p[1] * q[2] = q[1] * p[2]
FracAdd(p, q) == <<p[1] * q[2] + q[1] * p[2], p[2] * q[2]>>

RECURSIVE SeqToSet(_)
SeqToSet(s) == IF s = <<>> THEN {} ELSE {Head(s)} \cup SeqToSet(Tail(s))

(* The positions start..end of an inclusive interval *)
Positions(h) == h.start .. h.end

RECURSIVE Covered(_)
Covered(s) == IF s = <<>> THEN {} ELSE Positions(Head(s)) \cup Covered(Tail(s))

(* All orderings of the elements of a sequence *)
Orderings(s) ==
    LET n == Len(s)
        perms == {p \in [1..n -> 1..n] : \A i, j \in 1..n : i # j => p[i] # p[j]}
    IN {[i \in 1..n |-> s[p[i]]] : p \in perms}

----------------------------------------------------------------------------
(* sorted(xs, key=lambda x: x.start): Python's sort is stable *)

RECURSIVE InsertByStart(_, _)
InsertByStart(x, s) ==
    IF s = <<>> THEN <<x>>
    ELSE IF x.start < Head(s).start THEN <<x>> \o s
    ELSE <<Head(s)>> \o InsertByStart(x, Tail(s))

RECURSIVE SortByStart(_)
SortByStart(s) ==
    IF s = <<>> THEN <<>>
    ELSE InsertByStart(s[Len(s)], SortByStart(SubSeq(s, 1, Len(s) - 1)))

----------------------------------------------------------------------------
(* file_utils.merge_overlapping_domains.  A hit tuple                      *)
(* (start, end, id, bitscore, evalue, rescue_round) is a record.           *)

MergedEnd_LastWins(current_end, end) == end

(* current[1] = max(current[1], end) *)
MergedEnd(current_end, end) == Max(current_end, end)

(* lines 189-197: the e-value the accumulator holds after a merge *)
MergedEvalue(current_evalue_field, evalue_field) ==
    LET evalue == IF evalue_field = None THEN 0 ELSE evalue_field[1]
        current_evalue == IF current_evalue_field = None THEN 0
                          ELSE current_evalue_field[1]
    IN IF evalue < current_evalue \/ current_evalue = 0
       THEN Some(evalue)
       ELSE current_evalue_field

(* the body of the scan loop, lines 173-204 *)
RECURSIVE MergeScan(_, _, _)
MergeScan(current, rest, merged) ==
    IF rest = <<>> THEN Append(merged, current)
    ELSE LET d == Head(rest)
         IN IF d.dom_id = current.dom_id /\ d.start <= current.end + 1
            THEN MergeScan([current EXCEPT
                               !.end = MergedEnd(current.end, d.end),
                               !.bitscore = Max(current.bitscore, d.bitscore),
                               !.evalue = MergedEvalue(current.evalue, d.evalue)],
                           Tail(rest), merged)
            ELSE MergeScan(d, Tail(rest), Append(merged, current))

(* merge_overlapping_domains that closes the accumulator after one merge *)
merge_overlapping_domains_Pairwise(domains) ==
    LET RECURSIVE Scan(_, _, _, _)
        Scan(current, fresh, rest, merged) ==
            IF rest = <<>> THEN Append(merged, current)
            ELSE LET d == Head(rest)
                 IN IF fresh /\ d.dom_id = current.dom_id /\ d.start <= current.end + 1
                    THEN Scan([current EXCEPT
                                  !.end = MergedEnd(current.end, d.end),
                                  !.bitscore = Max(current.bitscore, d.bitscore),
                                  !.evalue = MergedEvalue(current.evalue, d.evalue)],
                              FALSE, Tail(rest), merged)
                    ELSE Scan(d, TRUE, Tail(rest), Append(merged, current))
    IN IF domains = <<>> THEN <<>>
       ELSE Scan(Head(SortByStart(domains)), TRUE, Tail(SortByStart(domains)), <<>>)

merge_overlapping_domains(domains) ==
    IF domains = <<>> THEN <<>>
    ELSE LET sorted_domains == SortByStart(domains)
         IN MergeScan(Head(sorted_domains), Tail(sorted_domains), <<>>)

----------------------------------------------------------------------------
(* core.domain.Domain and DomainService.merge_overlapping_domains *)

(* Domain.__post_init__: TRUE when the constructor raises ValueError *)
DomainRaises(d) ==
    \/ d.start < 0
    \/ d.end < d.start
    \/ d.coverage[1] < 0
    \/ d.coverage[1] > d.coverage[2]
    \/ d.type \notin {"domain", "hole"}

ToTuple(d) ==
    [start |-> d.start, end |-> d.end, dom_id |-> d.dom_id,
     bitscore |-> d.bitscore, evalue |-> d.evalue, rescue_round |-> d.rescue_round]

(* the Domain built from a merged tuple with coverage length / protein_length *)
FromTuple(t, protein_length) ==
    [dom_id |-> t.dom_id, start |-> t.start, end |-> t.end, bitscore |-> t.bitscore,
     coverage |-> <<t.end - t.start + 1, protein_length>>, evalue |-> t.evalue,
     type |-> "domain", rescue_round |-> t.rescue_round]

TuplesOf(ds) == [i \in 1..Len(ds) |-> ToTuple(ds[i])]

ServiceMergedDomains(tuples) ==
    [i \in 1..Len(tuples) |-> FromTuple(tuples[i], DefaultProteinLength)]

----------------------------------------------------------------------------
(* file_utils.is_overlap and file_utils.score_domain *)

OverlapLength(d1, d2) == Min(d1.end, d2.end) - Max(d1.start, d2.start)
ShorterLength(d1, d2) == Min(d1.end - d1.start, d2.end - d2.start)

(* the inclusive variant of Domain.overlaps_with *)
is_overlap_Inclusive(d1, d2, t) ==
    /\ OverlapLength(d1, d2) >= 0
    /\ (OverlapLength(d1, d2) + 1) * t[2] >= t[1] * (ShorterLength(d1, d2) + 1)

(* is_overlap_raises with the early return taken for                      *)
(* overlap_start > overlap_end only                                        *)
is_overlap_raises_LateReturn(d1, d2) ==
    /\ Max(d1.start, d2.start) <= Min(d1.end, d2.end)
    /\ ShorterLength(d1, d2) = 0

(* TRUE when is_overlap reaches the division with shorter_length = 0 *)
is_overlap_raises(d1, d2) ==
    /\ Max(d1.start, d2.start) < Min(d1.end, d2.end)
    /\ ShorterLength(d1, d2) = 0

(* is_overlap(dom1, dom2, mutual_overlap), the threshold being t[1] / t[2] *)
is_overlap(d1, d2, t) ==
    LET overlap_start == Max(d1.start, d2.start)
        overlap_end == Min(d1.end, d2.end)
        overlap_length == overlap_end - overlap_start
        shorter_length == ShorterLength(d1, d2)
    IN IF overlap_start >= overlap_end THEN FALSE
       ELSE IF shorter_length > 0
            THEN overlap_length * t[2] >= t[1] * shorter_length
            ELSE overlap_length * t[2] <= t[1] * shorter_length

DefaultOverlap == <<MutualOverlapNum, MutualOverlapDen>>

----------------------------------------------------------------------------
(* core.domain.create_hole and FamilyService._get_domains / _find_holes /  *)
(* _merge_domains                                                          *)

EmptyDict == <<>>

(* coverage = max(0.0, min(1.0, coverage)) when it leaves [0, 1] *)
ClampCoverage(num, den) ==
    IF num < 0 THEN <<0, 1>> ELSE IF num > den THEN <<1, 1>> ELSE <<num, den>>

create_hole(start, end, protein_length) ==
    [dom_id |-> "-1", start |-> start, end |-> end, bitscore |-> -1,
     coverage |-> IF protein_length <= 0 THEN <<0, 1>>
                  ELSE ClampCoverage(end - start + 1, protein_length),
     evalue |-> None, type |-> "hole", rescue_round |-> None]

NonHoles(domains) == SelectSeq(domains, LAMBDA d : d.type # "hole")
Holes(domains) == SelectSeq(domains, LAMBDA d : d.type = "hole")

RECURSIVE FindHolesScan(_, _, _, _)
FindHolesScan(sorted_domains, current_pos, holes, sys_len) ==
    IF sorted_domains = <<>>
    THEN IF current_pos <= sys_len
         THEN Append(holes, create_hole(current_pos, sys_len, sys_len))
         ELSE holes
    ELSE LET domain == Head(sorted_domains)
             holes2 == IF domain.start > current_pos
                       THEN Append(holes, create_hole(current_pos, domain.start - 1, sys_len))
                       ELSE holes
         IN FindHolesScan(Tail(sorted_domains), Max(current_pos, domain.end + 1),
                          holes2, sys_len)

(* FamilyService._find_holes(sys_len, domains) *)
_find_holes(sys_len, domains) ==
    IF domains = <<>> THEN <<>>
    ELSE FindHolesScan(SortByStart(domains), 1, <<>>, sys_len)

(* the Domain built from one row of the hit table *)
RowDomain(row, sys_len) ==
    [dom_id |-> row.dom_id, start |-> row.start, end |-> row.end,
     bitscore |-> row.bitscore,
     coverage |-> IF sys_len <= 0 THEN <<0, 1>>
                  ELSE ClampCoverage(row.end - row.start + 1, sys_len),
     evalue |-> Some(row.evalue), type |-> "domain", rescue_round |-> None]

(* FamilyService._get_domains(sys_len, system_data); rows arrive sorted by *)
(* 'hit start'                                                             *)
_get_domains(sys_len, rows) ==
    LET domains == [i \in 1..Len(rows) |-> RowDomain(rows[i], sys_len)]
    IN SortByStart(domains \o _find_holes(sys_len, domains))

(* FamilyService._merge_domains(domains, sys_len) *)
_merge_domains(domains, sys_len) ==
    IF domains = <<>> THEN domains
    ELSE IF NonHoles(domains) = <<>> THEN Holes(domains)
    ELSE LET merged == merge_overlapping_domains(TuplesOf(NonHoles(domains)))
             len == IF sys_len > 0 THEN sys_len ELSE DefaultProteinLength
         IN SortByStart([i \in 1..Len(merged) |-> FromTuple(merged[i], len)]
                            \o Holes(domains))

(* TRUE when a Domain(...) of _merge_domains raises ValueError: the         *)
(* coverage of a merged hit is not clamped                                 *)
_merge_domains_raises(domains, sys_len) ==
    /\ NonHoles(domains) # <<>>
    /\ LET merged == merge_overlapping_domains(TuplesOf(NonHoles(domains)))
           len == IF sys_len > 0 THEN sys_len ELSE DefaultProteinLength
       IN \E i \in 1..Len(merged) : DomainRaises(FromTuple(merged[i], len))

----------------------------------------------------------------------------
(* core.system.System and core.hole.Hole *)

DictAppend(m, id, d) ==
    IF id \in DOMAIN m THEN [m EXCEPT ![id] = Append(@, d)]
    ELSE [x \in DOMAIN m \cup {id} |-> IF x = id THEN <<d>> ELSE m[x]]

(* System._build_domain_map: appends to the lists domain_map already holds *)
RECURSIVE _build_domain_map(_, _)
_build_domain_map(domain_map, domains) ==
    IF domains = <<>> THEN domain_map
    ELSE LET domain == Head(domains)
         IN _build_domain_map(IF domain.type # "hole"
                              THEN DictAppend(domain_map, domain.dom_id, domain)
                              ELSE domain_map,
                              Tail(domains))

(* the first entry of highest bitscore (list.sort is stable) *)
BestByBitscore(doms) ==
    doms[CHOOSE i \in 1..Len(doms) :
            /\ \A j \in 1..Len(doms) : doms[j].bitscore <= doms[i].bitscore
            /\ \A j \in 1..(i - 1) : doms[j].bitscore < doms[i].bitscore]

(* Hole._get_best_name *)
_get_best_name(ref_doms) ==
    LET Unwrap(os) == [i \in 1..Len(os) |-> os[i][1]]
        lefts == Unwrap(SelectSeq([i \in 1..Len(ref_doms) |-> ref_doms[i][1]],
                                  LAMBDA o : o # None))
        rights == Unwrap(SelectSeq([i \in 1..Len(ref_doms) |-> ref_doms[i][2]],
                                   LAMBDA o : o # None))
    IN <<IF lefts = <<>> THEN "BEGIN" ELSE BestByBitscore(lefts).dom_id,
         IF rights = <<>> THEN "END" ELSE BestByBitscore(rights).dom_id>>

Hole(pos, ref_doms, start, end) ==
    [pos |-> pos, ref_doms |-> ref_doms, start |-> start, end |-> end,
     best_name |-> _get_best_name(ref_doms)]

(* the loop of System._identify_holes over sorted_domains[i], [i + 1] *)
RECURSIVE IdentifyHolesScan(_, _, _, _, _, _, _)
IdentifyHolesScan(sorted_domains, i, domains, holes, sys_len, threshold, margin) ==
    IF i >= Len(sorted_domains) THEN [domains |-> domains, holes |-> holes]
    ELSE LET current_domain == sorted_domains[i]
             next_domain == sorted_domains[i + 1]
             gap_start == current_domain.end + margin
             gap_end == next_domain.start - margin
         IN IF gap_end > gap_start /\ (gap_end - gap_start + 1) >= threshold
            THEN IdentifyHolesScan(sorted_domains, i + 1,
                    Append(domains, create_hole(gap_start, gap_end, sys_len)),
                    Append(holes, Hole(Len(holes),
                                       <<<<Some(current_domain), Some(next_domain)>>>>,
                                       gap_start, gap_end)),
                    sys_len, threshold, margin)
            ELSE IdentifyHolesScan(sorted_domains, i + 1, domains, holes,
                                   sys_len, threshold, margin)

(* _identify_holes with the margin left out of the gap bounds *)
_identify_holes_NoMargin(domains, sys_len, threshold, margin) ==
    IdentifyHolesScan(SortByStart(domains), 1, domains, <<>>, sys_len, threshold, 0)

(* System._identify_holes(threshold, margin): the new domains and holes *)
_identify_holes(domains, sys_len, threshold, margin) ==
    IdentifyHolesScan(SortByStart(domains), 1, domains, <<>>, sys_len, threshold, margin)

(* System(...): the dataclass fields after __post_init__; sys_domains,     *)
(* sys_new_domains, G, connected_components and overlapping_domains are    *)
(* set by filter_domains                                                   *)
System(sys_len, domains) ==
    LET found == _identify_holes(domains, sys_len, HoleThreshold, HoleMargin)
    IN [sys_len |-> sys_len,
        domains |-> found.domains,
        holes |-> found.holes,
        domain_map |-> _build_domain_map(EmptyDict, domains),
        sys_domains |-> <<>>,
        sys_new_domains |-> <<>>,
        nodes |-> <<>>,
        node_domain |-> EmptyDict,
        edges |-> {},
        connected_components |-> <<>>,
        overlapping_domains |-> <<>>]

----------------------------------------------------------------------------
(* core.family.Family *)

(* Family._merge_system_domains(system): system.domains afterwards *)
_merge_system_domains(system) ==
    IF NonHoles(system.domains) = <<>> THEN system.domains
    ELSE LET merged == merge_overlapping_domains(TuplesOf(NonHoles(system.domains)))
         IN [i \in 1..Len(merged) |-> FromTuple(merged[i], system.sys_len)]

(* TRUE when a Domain(...) of _merge_system_domains raises ValueError *)
_merge_system_domains_raises(system) ==
    /\ NonHoles(system.domains) # <<>>
    /\ LET merged == merge_overlapping_domains(TuplesOf(NonHoles(system.domains)))
       IN \E i \in 1..Len(merged) : DomainRaises(FromTuple(merged[i], system.sys_len))

(* Family._process_systems *)
_process_systems(syss, merge) ==
    [i \in 1..Len(syss) |->
        IF merge THEN [syss[i] EXCEPT !.domains = _merge_system_domains(syss[i])]
        ELSE syss[i]]

RECURSIVE CountId(_, _)
CountId(domains, id) ==
    IF domains = <<>> THEN 0
    ELSE (IF Head(domains).type # "hole" /\ Head(domains).dom_id = id THEN 1 ELSE 0)
            + CountId(Tail(domains), id)

(* sum(...) over a list of numbers *)
RECURSIVE SumSeq(_)
SumSeq(s) == IF s = <<>> THEN 0 ELSE Head(s) + SumSeq(Tail(s))

IdsOf(domains) == {domains[i].dom_id : i \in {i \in 1..Len(domains) : domains[i].type # "hole"}}

(* Family._calculate_statistics: statistics['domain_frequencies'] *)
_calculate_statistics(syss) ==
    LET ids == UNION {IdsOf(syss[i].domains) : i \in 1..Len(syss)}
        Freq(id) == SumSeq([i \in 1..Len(syss) |-> CountId(syss[i].domains, id)])
    IN [id \in ids |-> Freq(id)]

(* Family._identify_characteristic_domains(threshold = 0.5) *)
_identify_characteristic_domains(syss, domain_frequencies) ==
    IF syss = <<>> THEN {}
    ELSE {id \in DOMAIN domain_frequencies :
             FracLeq(<<CharThresholdNum, CharThresholdDen>>,
                     <<domain_frequencies[id], Len(syss)>>)}

----------------------------------------------------------------------------
(* core.rescue_family.RescueFamily.filter_domains, first pass *)

(* score_domain: nlog = -ln(evalue), or the sentinel for None, 0.0 *)
Nlog(evalue) ==
    IF evalue = None \/ evalue = Some(0) THEN NlogSentinel ELSE EOne - evalue[1]

(* score_domain(domain, protein_length) as a fraction *)
score_domain(domain, protein_length) ==
    <<(domain.end * protein_length - domain.start) * Nlog(domain.evalue), protein_length>>

(* G.add_node(dom.dom_id, domain=dom): the node keys in insertion order *)
RECURSIVE GraphNodes(_, _)
GraphNodes(sys_domains, nodes) ==
    IF sys_domains = <<>> THEN nodes
    ELSE GraphNodes(Tail(sys_domains),
                    IF Head(sys_domains).dom_id \in SeqToSet(nodes) THEN nodes
                    ELSE Append(nodes, Head(sys_domains).dom_id))

(* G.nodes[i]['domain']: a later add_node of the same key replaces it *)
RECURSIVE GraphNodeDomain(_, _)
GraphNodeDomain(sys_domains, m) ==
    IF sys_domains = <<>> THEN m
    ELSE LET d == Head(sys_domains)
         IN GraphNodeDomain(Tail(sys_domains),
                [x \in DOMAIN m \cup {d.dom_id} |-> IF x = d.dom_id THEN d ELSE m[x]])

(* a graph without edges *)
GraphEdges_None(sys_domains) == {}

(* G.add_edge for every overlapping pair i < j *)
GraphEdges(sys_domains) ==
    {{sys_domains[i].dom_id, sys_domains[j].dom_id} :
        <<i, j>> \in {q \in (1..Len(sys_domains)) \X (1..Len(sys_domains)) :
                        /\ q[1] < q[2]
                        /\ is_overlap(sys_domains[q[1]], sys_domains[q[2]], DefaultOverlap)}}

RECURSIVE Reach(_, _, _)
Reach(S, nodes, edges) ==
    LET S2 == S \cup {n \in nodes : \E m \in S : {m, n} \in edges}
    IN IF S2 = S THEN S ELSE Reach(S2, nodes, edges)

(* nx.connected_components(G): sets, in the order of their first node *)
RECURSIVE ConnectedComponents(_, _, _, _)
ConnectedComponents(nodes, all, edges, seen) ==
    IF nodes = <<>> THEN <<>>
    ELSE IF Head(nodes) \in seen THEN ConnectedComponents(Tail(nodes), all, edges, seen)
    ELSE LET c == Reach({Head(nodes)}, all, edges)
         IN <<c>> \o ConnectedComponents(Tail(nodes), all, edges, seen \cup c)

(* max_score = float('-inf'): None stands for minus infinity *)
MaxScore_Init == None

(* lines 90-98: the scan of one component in its iteration order *)
RECURSIVE SelectRepresentative(_, _, _, _, _)
SelectRepresentative(order, node_domain, sys_len, max_score, representative_domain) ==
    IF order = <<>> THEN representative_domain
    ELSE LET domain == node_domain[Head(order)]
             score == score_domain(domain, sys_len)
         IN IF max_score = None \/ FracLess(max_score[1], score)
            THEN SelectRepresentative(Tail(order), node_domain, sys_len,
                                      Some(score), Some(domain))
            ELSE SelectRepresentative(Tail(order), node_domain, sys_len,
                                      max_score, representative_domain)

DictHas(d, k) == \E i \in 1..Len(d) : d[i].key = k
DictGet(d, k) == d[CHOOSE i \in 1..Len(d) : d[i].key = k].value

(* lines 103-105: votes[id] = votes.get(id, 0) + 1 *)
VotesIncrement(v, id) ==
    IF DictHas(v, id)
    THEN [i \in 1..Len(v) |-> IF v[i].key = id THEN [v[i] EXCEPT !.value = @ + 1] ELSE v[i]]
    ELSE Append(v, [key |-> id, value |-> 1])

(* the iteration order of a component, a Python set: the order of its      *)
(* keys in perm                                                            *)
IterOrder(component, perm) == SelectSeq(perm, LAMBDA n : n \in component)

(* lines 86-105 for the components from k on: <<sys_new_domains, votes>> *)
RECURSIVE SelectAll(_, _, _, _, _, _, _)
SelectAll(components, k, perm, node_domain, sys_len, sys_new_domains, v) ==
    IF k > Len(components) THEN <<sys_new_domains, v>>
    ELSE LET rep == SelectRepresentative(IterOrder(components[k], perm), node_domain,
                                         sys_len, MaxScore_Init, None)
         IN IF rep # None
            THEN SelectAll(components, k + 1, perm, node_domain, sys_len,
                           Append(sys_new_domains, rep[1]), VotesIncrement(v, rep[1].dom_id))
            ELSE SelectAll(components, k + 1, perm, node_domain, sys_len,
                           sys_new_domains, v)

RECURSIVE Flatten(_)
Flatten(ss) == IF ss = <<>> THEN <<>> ELSE Head(ss) \o Flatten(Tail(ss))

----------------------------------------------------------------------------
(* RescueFamily.filter_domains, lines 108-118: the tallies *)

(* key=lambda x: x[1]: votes are integers, scores are fractions *)
VotesGt(a, b) == a.value > b.value
ScoreGt(a, b) == FracLess(b.value, a.value)
ValueGt(by, a, b) == IF by = "votes" THEN VotesGt(a, b) ELSE ScoreGt(a, b)

(* sorted(items, key=lambda x: x[1], reverse=True): stable *)
RECURSIVE InsertDesc(_, _, _)
InsertDesc(by, x, s) ==
    IF s = <<>> THEN <<x>>
    ELSE IF ValueGt(by, x, Head(s)) THEN <<x>> \o s
    ELSE <<Head(s)>> \o InsertDesc(by, x, Tail(s))

RECURSIVE SortDesc(_, _)
SortDesc(by, s) ==
    IF s = <<>> THEN <<>>
    ELSE InsertDesc(by, s[Len(s)], SortDesc(by, SubSeq(s, 1, Len(s) - 1)))

(* the sum of value * dom.coverage over the entries of dom_id = id *)
RECURSIVE PoolScore(_, _, _)
PoolScore(pool, id, value) ==
    IF pool = <<>> THEN <<0, 1>>
    ELSE LET rest == PoolScore(Tail(pool), id, value)
             dom == Head(pool)
         IN IF dom.dom_id = id
            THEN FracAdd(<<value * dom.coverage[1], dom.coverage[2]>>, rest)
            ELSE rest

(* lines 110-117: scores, a dict with the keys of votes in their order,  *)
(* each pool hit adding the value that sorted_votes holds for its identity *)
Scores(syss, v, sorted_votes) ==
    LET pool == Flatten([i \in 1..Len(syss) |-> syss[i].overlapping_domains])
    IN [i \in 1..Len(v) |->
           [key |-> v[i].key,
            value |-> PoolScore(pool, v[i].key, DictGet(sorted_votes, v[i].key))]]

----------------------------------------------------------------------------
(* RescueFamily.filter_domains, lines 119-134: the substitution pass *)

(* lines 131-134: the first hit of curr_bests that overlaps dom, or None *)
RECURSIVE FirstOverlapping(_, _)
FirstOverlapping(dom, curr_bests) ==
    IF curr_bests = <<>> THEN None
    ELSE IF is_overlap(dom, Head(curr_bests), DefaultOverlap) THEN Some(Head(curr_bests))
    ELSE FirstOverlapping(dom, Tail(curr_bests))

(* lines 122-134: the walk of sorted_scores from entry k on for the loop   *)
(* variable dom; current is the value of sys.domains[i]. The break of line *)
(* 134 leaves the loop over curr_bests only, so the walk goes on, still    *)
(* comparing with dom                                                      *)
RECURSIVE SubstituteWalk(_, _, _, _, _)
SubstituteWalk(dom, ranked, k, domain_map, current) ==
    IF k > Len(ranked) THEN current
    ELSE LET best_dom == ranked[k].key
         IN IF dom.dom_id = best_dom THEN current
            ELSE IF best_dom \notin DOMAIN domain_map
                 THEN SubstituteWalk(dom, ranked, k + 1, domain_map, current)
                 ELSE LET hit == FirstOverlapping(dom, domain_map[best_dom])
                      IN SubstituteWalk(dom, ranked, k + 1, domain_map,
                                        IF hit = None THEN current ELSE hit[1])

(* lines 121-134 for one system: sys.domains afterwards *)
SubstituteSystem(domains, ranked, domain_map) ==
    [i \in 1..Len(domains) |->
        SubstituteWalk(domains[i], ranked, 1, domain_map, domains[i])]

----------------------------------------------------------------------------
(* System.fill_holes and System.get_holes *)

(* Domain("-1", start, end, -1, coverage, type="hole") *)
GapDomain(start, end, coverage) ==
    [dom_id |-> "-1", start |-> start, end |-> end, bitscore |-> -1,
     coverage |-> coverage, evalue |-> None, type |-> "hole", rescue_round |-> None]

(* lines 203 and 229: (end - start) / sys_len, or 0.0 *)
EdgeGapCoverage(start, end, sys_len) ==
    IF sys_len > 0 THEN <<end - start, sys_len>> ELSE <<0, 1>>

(* line 218: (curr_start - prev_end - 1) / sys_len, or 0.0 *)
InnerGapCoverage(prev_end, curr_start, sys_len) ==
    IF sys_len > 0 THEN <<curr_start - prev_end - 1, sys_len>> ELSE <<0, 1>>

(* lines 199-205: the gap at the beginning *)
LeadingGap(sorted_domains, sys_len) ==
    IF sorted_domains = <<>> \/ sorted_domains[1].start > 0
    THEN LET end == IF sorted_domains # <<>> THEN sorted_domains[1].start - 1
                    ELSE sys_len - 1
         IN <<GapDomain(0, end, EdgeGapCoverage(0, end, sys_len))>>
    ELSE <<>>

(* lines 212-223: the gaps between and the domains from sorted_domains[i] on *)
RECURSIVE InnerGaps(_, _, _)
InnerGaps(sorted_domains, i, sys_len) ==
    IF i > Len(sorted_domains) THEN <<>>
    ELSE LET prev_end == sorted_domains[i - 1].end
             curr_start == sorted_domains[i].start
             hole == IF prev_end + 1 < curr_start
                     THEN <<GapDomain(prev_end + 1, curr_start - 1,
                                      InnerGapCoverage(prev_end, curr_start, sys_len))>>
                     ELSE <<>>
         IN hole \o <<sorted_domains[i]>> \o InnerGaps(sorted_domains, i + 1, sys_len)

(* lines 225-231: the gap at the end *)
TrailingGap(sorted_domains, sys_len) ==
    IF sorted_domains # <<>> /\ sorted_domains[Len(sorted_domains)].end < sys_len - 1
    THEN LET start == sorted_domains[Len(sorted_domains)].end + 1
             end == sys_len - 1
         IN <<GapDomain(start, end, EdgeGapCoverage(start, end, sys_len))>>
    ELSE <<>>

(* lines 193-231: new_domains *)
NewDomains(domains, sys_len) ==
    LET sorted_domains == SortByStart(NonHoles(domains))
    IN LeadingGap(sorted_domains, sys_len)
        \o (IF sorted_domains # <<>> THEN <<sorted_domains[1]>> ELSE <<>>)
        \o InnerGaps(sorted_domains, 2, sys_len)
        \o TrailingGap(sorted_domains, sys_len)

(* TRUE when a Domain(...) of fill_holes raises ValueError *)
fill_holes_raises(domains, sys_len) ==
    \E i \in 1..Len(NewDomains(domains, sys_len)) :
        /\ NewDomains(domains, sys_len)[i].type = "hole"
        /\ DomainRaises(NewDomains(domains, sys_len)[i])

(* fill_holes appending its gaps to the entries System.domains holds *)
fill_holes_Append(sys) ==
    [sys EXCEPT !.domains = @ \o Holes(NewDomains(sys.domains, sys.sys_len)),
                !.domain_map = _build_domain_map(sys.domain_map,
                                                 NewDomains(sys.domains, sys.sys_len))]

(* System.fill_holes(): the system afterwards, when no Domain(...) raises *)
fill_holes(sys) ==
    LET new_domains == NewDomains(sys.domains, sys.sys_len)
    IN [sys EXCEPT !.domains = new_domains,
                   !.domain_map = _build_domain_map(sys.domain_map, new_domains)]

(* file_utils.find_margins: the entries of domains that cover position p *)
find_margins(domains, p) == SelectSeq(domains, LAMBDA dom : dom.start <= p /\ p <= dom.end)

(* lines 261-277: ref_doms *)
RefDoms(left_doms, right_doms) ==
    IF left_doms = <<>>
    THEN [r \in 1..Len(right_doms) |-> <<None, Some(right_doms[r])>>]
    ELSE IF right_doms = <<>>
    THEN [l \in 1..Len(left_doms) |-> <<Some(left_doms[l]), None>>]
    ELSE [k \in 1..(Len(left_doms) * Len(right_doms)) |->
             <<Some(left_doms[((k - 1) \div Len(right_doms)) + 1]),
               Some(right_doms[((k - 1) % Len(right_doms)) + 1])>>]

(* lines 255-285: the holes of the entries of domains from index i on *)
RECURSIVE GetHolesScan(_, _, _, _)
GetHolesScan(domains, i, thresh, margin) ==
    IF i > Len(domains) THEN <<>>
    ELSE LET dom == domains[i]
         IN (IF dom.type = "hole" /\ dom.end - dom.start >= thresh
             THEN <<Hole(i - 1,
                         RefDoms(find_margins(domains, dom.start - margin),
                                 find_margins(domains, dom.end + margin)),
                         dom.start, dom.end)>>
             ELSE <<>>)
            \o GetHolesScan(domains, i + 1, thresh, margin)

(* System.get_holes(thresh, margin): the system afterwards *)
get_holes(sys, thresh, margin) ==
    [sys EXCEPT !.holes = GetHolesScan(sys.domains, 1, thresh, margin)]

----------------------------------------------------------------------------
(* file_utils.find_holes and DomainService.find_inter_domain_regions *)

(* lines 232-246: the holes found from index i on *)
RECURSIVE FindHolesRuns(_, _, _, _)
FindHolesRuns(covered, i, hole_start, protein_length) ==
    IF i >= protein_length
    THEN IF hole_start # None
         THEN <<[start |-> hole_start[1], end |-> protein_length]>>
         ELSE <<>>
    ELSE IF i \notin covered
         THEN FindHolesRuns(covered, i + 1,
                            IF hole_start = None THEN Some(i + 1) ELSE hole_start,
                            protein_length)
         ELSE (IF hole_start # None THEN <<[start |-> hole_start[1], end |-> i]>>
               ELSE <<>>)
                \o FindHolesRuns(covered, i + 1, None, protein_length)

(* find_holes(protein_length, domain_regions): the (start, end) of the     *)
(* tuples it returns. Lines 227-229 set covered[i] = True in the list as   *)
(* it is: a negative index counts from the end of the list                 *)
find_holes(protein_length, domain_regions) ==
    LET covered == UNION {{IF i < 0 THEN i + protein_length ELSE i :
                              i \in (domain_regions[k].start - 1)
                                       ..(Min(domain_regions[k].end, protein_length) - 1)} :
                             k \in 1..Len(domain_regions)}
    IN FindHolesRuns(covered, 0, None, protein_length)

(* DomainService.find_inter_domain_regions(domains, protein_length) *)
find_inter_domain_regions(domains, protein_length) ==
    LET domain_regions == [i \in 1..Len(NonHoles(domains)) |->
                              [start |-> NonHoles(domains)[i].start,
                               end |-> NonHoles(domains)[i].end]]
        hole_tuples == find_holes(protein_length, domain_regions)
    IN [k \in 1..Len(hole_tuples) |->
           GapDomain(hole_tuples[k].start, hole_tuples[k].end,
                     <<hole_tuples[k].end - hole_tuples[k].start + 1, protein_length>>)]

(* TRUE when the call raises: IndexError for covered[i] = True of          *)
(* find_holes, line 229, or ValueError for a Domain(...) of line 92        *)
find_inter_domain_regions_raises(domains, protein_length) ==
    \/ \E k \in 1..Len(NonHoles(domains)) :
          \E i \in (NonHoles(domains)[k].start - 1)
                     ..(Min(NonHoles(domains)[k].end, protein_length) - 1) :
              i < 0 - protein_length \/ i >= protein_length
    \/ \E k \in 1..Len(find_inter_domain_regions(domains, protein_length)) :
          DomainRaises(find_inter_domain_regions(domains, protein_length)[k])

----------------------------------------------------------------------------
(* file_utils.confidence_interval_mean and the consensus part of           *)
(* FamilyVisualizer.plot_architecture                                      *)

(* np.mean(coords) doubled: the sum of the values twice over their number  *)
confidence_interval_mean_Doubled(coords) ==
    LET RECURSIVE Sum(_)
        Sum(c) == IF c = <<>> THEN <<0, 1>> ELSE FracAdd(Head(c), Sum(Tail(c)))
    IN <<2 * Sum(coords)[1], Sum(coords)[2] * Len(coords)>>

(* confidence_interval_mean(coords): np.mean(coords) when the values are   *)
(* all the same, else np.mean(ci) of the interval ci that stats.t.interval *)
(* puts around loc = mean, (mean - h, mean + h); its half-width            *)
(* h = t * std_err is written 1 / mean[2]                                  *)
confidence_interval_mean(coords) ==
    LET RECURSIVE Sum(_)
        Sum(c) == IF c = <<>> THEN <<0, 1>> ELSE FracAdd(Head(c), Sum(Tail(c)))
        mean == <<Sum(coords)[1], Sum(coords)[2] * Len(coords)>>
        ci == <<<<mean[1] - 1, mean[2]>>, <<mean[1] + 1, mean[2]>>>>
    IN IF \A i \in 1..Len(coords) : FracEq(coords[i], coords[1])
       THEN mean
       ELSE <<ci[1][1] + ci[2][1], 2 * mean[2]>>

(* lines 226-233: char_domain_locs[char_dom], for every system the list of *)
(* [start / sys_len, end / sys_len] of its entries named char_dom          *)
char_domain_locs(syss, char_dom) ==
    [n \in 1..Len(syss) |->
        LET named == SelectSeq(syss[n].domains, LAMBDA domain : domain.dom_id = char_dom)
        IN [k \in 1..Len(named) |->
               [start |-> <<named[k].start, syss[n].sys_len>>,
                end |-> <<named[k].end, syss[n].sys_len>>]]]

(* the largest of the values *)
curr_mode_Max(values) ==
    CHOOSE m \in SeqToSet(values) : \A v \in SeqToSet(values) : v <= m

(* line 241: stats.mode(values).mode, the most frequent value and the      *)
(* smallest of the most frequent ones                                      *)
curr_mode(values) ==
    LET Count(x) == Len(SelectSeq(values, LAMBDA v : v = x))
    IN CHOOSE m \in SeqToSet(values) :
          \A v \in SeqToSet(values) :
              Count(m) > Count(v) \/ (Count(m) = Count(v) /\ m <= v)

(* lines 236-249: the lists that char_domain_locs holds for char_dom, for  *)
(* its sub-identities char_dom 0, char_dom 1, ... when the mode is above 1 *)
mode_locs(syss, char_dom) ==
    LET all == char_domain_locs(syss, char_dom)
        mode == curr_mode(SelectSeq([n \in 1..Len(all) |-> Len(all[n])],
                                    LAMBDA c : c > 0))
        curr_lst == SelectSeq(all, LAMBDA lst : Len(lst) = mode)
    IN [i \in 1..mode |-> [n \in 1..Len(curr_lst) |-> curr_lst[n][i]]]

(* lines 222-264 of plot_architecture: char_domain_map, the intervals in   *)
(* percent                                                                 *)
plot_architecture(syss, chars) ==
    [char_dom \in chars |->
        [i \in 1..Len(mode_locs(syss, char_dom)) |->
            LET intervals == mode_locs(syss, char_dom)[i]
                start == confidence_interval_mean(
                             [n \in 1..Len(intervals) |-> intervals[n].start])
                end == confidence_interval_mean(
                           [n \in 1..Len(intervals) |-> intervals[n].end])
            IN [start |-> <<start[1] * 100, start[2]>>,
                end |-> <<end[1] * 100, end[2]>>]]]

----------------------------------------------------------------------------
(* Inputs of the merge specification *)

Evalues == {None, Some(0), Some(1), Some(2)}

MkDomain(id, s, e, bs, ev, len) ==
    [dom_id |-> id, start |-> s, end |-> e, bitscore |-> bs,
     coverage |-> <<e - s + 1, len>>, evalue |-> ev,
     type |-> "domain", rescue_round |-> None]

(* hits of two identities on 1..MaxPos, e-value left at its default None *)
GeomHits ==
    {MkDomain(id, s, e, 10, None, DefaultProteinLength) :
        id \in {"A", "B"}, s \in 1..MaxPos, e \in 1..MaxPos}

(* chained hits of one identity with every e-value and two bitscores *)
SigHits ==
    {MkDomain("A", s, s + 1, bs, ev, DefaultProteinLength) :
        s \in 1..2, bs \in {10, 20}, ev \in Evalues}

SeqsUpTo(S, n) == UNION {[1..k -> S] : k \in 0..n}

(* tests/unit/test_domain_service.py: the lists of the merge tests *)
TestMergeInputs ==
    {<<MkDomain("A", 1, 50, 10, None, DefaultProteinLength),
       MkDomain("A", 45, 80, 15, None, DefaultProteinLength),
       MkDomain("B", 100, 150, 20, None, DefaultProteinLength)>>,
     <<MkDomain("A", 1, 50, 10, None, DefaultProteinLength),
       MkDomain("B", 100, 150, 20, None, DefaultProteinLength)>>}

MergeInputs ==
    SeqsUpTo({d \in GeomHits : d.start <= d.end}, MaxLen)
        \cup SeqsUpTo(SigHits, MaxLen) \cup TestMergeInputs

----------------------------------------------------------------------------
(* Idle values of the variables a specification does not use *)

MergeIdle ==
    /\ mDomains = <<>> /\ merged_tuples = <<>> /\ merged_domains = <<>>
    /\ mpc = "idle"

OverlapIdle ==
    /\ dom1 = None /\ dom2 = None /\ mutual_overlap = DefaultOverlap
    /\ oResult = None /\ opc = "idle"

FamilyIdle ==
    /\ pc = "idle" /\ idx = 0 /\ merge_overlapping = TRUE /\ rescue_data = <<>>
    /\ systems = <<>> /\ votes = <<>> /\ sorted_scores = <<>>
    /\ statistics = EmptyDict /\ characteristic_domains = {}
    /\ char_domain_map = None

familyVars == <<pc, idx, merge_overlapping, rescue_data, systems, votes, sorted_scores,
                statistics, characteristic_domains, char_domain_map>>
mergeVars == <<mDomains, merged_tuples, merged_domains, mpc>>
overlapVars == <<dom1, dom2, mutual_overlap, oResult, opc>>
holeVars == <<hsys, hfilled, hargs, hpc>>
batchVars == <<batch, config_dict, bidx, visited, csv_rows, bpc>>

HoleIdle ==
    /\ hsys = System(0, <<>>) /\ hfilled = None /\ hargs = None /\ hpc = "idle"

regionVars == <<fDomains, fLength, fHoles, fpc>>

RegionIdle ==
    /\ fDomains = <<>> /\ fLength = 0 /\ fHoles = None /\ fpc = "idle"

BatchIdle ==
    /\ batch = <<>> /\ config_dict = [plot_types |-> FALSE, data_file |-> FALSE]
    /\ bidx = 0 /\ visited = <<>> /\ csv_rows = <<>> /\ bpc = "idle"

----------------------------------------------------------------------------
(* Specification SpecMerge: DomainService.merge_overlapping_domains applied *)
(* to one list of Domain objects                                            *)

InitMerge ==
    /\ mDomains \in MergeInputs
    /\ merged_tuples = <<>>
    /\ merged_domains = <<>>
    /\ mpc = "call"
    /\ OverlapIdle
    /\ FamilyIdle
    /\ HoleIdle
    /\ BatchIdle
    /\ RegionIdle

(* DomainService.merge_overlapping_domains(domains) *)
ServiceMerge ==
    /\ mpc = "call"
    /\ merged_tuples' = merge_overlapping_domains(TuplesOf(mDomains))
    /\ merged_domains' = ServiceMergedDomains(merged_tuples')
    /\ mpc' = "done"
    /\ UNCHANGED <<mDomains, overlapVars, familyVars, holeVars, batchVars, regionVars>>

NextMerge == ServiceMerge

SpecMerge == InitMerge /\ [][NextMerge]_vars

----------------------------------------------------------------------------
(* Claims about merge_overlapping_domains, checked under SpecMerge *)

MergeDone == mpc = "done"
mTuples == TuplesOf(mDomains)

(* C1: the positions covered by the merged intervals are exactly the       *)
(* positions covered by the input intervals (nothing lost, nothing added). *)
C1_LosslessCoverage ==
    MergeDone => Covered(merged_tuples) = Covered(mTuples)

(* a merge of a hit that ends inside the accumulator has happened *)
C1_Witness ==
    /\ MergeDone
    /\ Len(merged_tuples) < Len(mDomains)
    /\ \E i, j \in 1..Len(mDomains) :
          /\ mDomains[i].dom_id = mDomains[j].dom_id
          /\ mDomains[i].start < mDomains[j].start
          /\ mDomains[j].end < mDomains[i].end

(* C2: no two output hits of one identity overlap or are separated by at   *)
(* most one residue: for same-identity outputs X before Y,                 *)
(* Y.start > X.end + 1.                                                    *)
C2_MinimalCover ==
    MergeDone =>
        \A i, j \in 1..Len(merged_tuples) :
            (i < j /\ merged_tuples[i].dom_id = merged_tuples[j].dom_id)
                => merged_tuples[j].start > merged_tuples[i].end + 1

(* the input holds exactly two hits of identity id, the later-starting one *)
(* beginning at or before the earlier one's end + 1                        *)
TwoMergeable(ts, id) ==
    \E i, j \in 1..Len(ts) :
        /\ i # j
        /\ {k \in 1..Len(ts) : ts[k].dom_id = id} = {i, j}
        /\ ts[i].start <= ts[j].start
        /\ ts[j].start <= ts[i].end + 1

SingleOthers(ts, id) ==
    \A i, j \in 1..Len(ts) :
        (ts[i].dom_id # id /\ ts[i].dom_id = ts[j].dom_id) => i = j

MinStart(ts, id) ==
    CHOOSE m \in {ts[k].start : k \in {k \in 1..Len(ts) : ts[k].dom_id = id}} :
        \A k \in 1..Len(ts) : ts[k].dom_id = id => m <= ts[k].start

MaxEnd(ts, id) ==
    CHOOSE m \in {ts[k].end : k \in {k \in 1..Len(ts) : ts[k].dom_id = id}} :
        \A k \in 1..Len(ts) : ts[k].dom_id = id => m >= ts[k].end

(* C3: two same-identity hits, the later one starting at or before the     *)
(* earlier one's end + 1, give exactly one hit of that identity from the   *)
(* smaller start to the larger end; hits of another identity keep their    *)
(* bounds; the empty list gives the empty list.                            *)
C3_TwoHitsMerge ==
    MergeDone =>
        /\ mDomains = <<>> => merged_tuples = <<>>
        /\ \A id \in {"A", "B"} :
              (TwoMergeable(mTuples, id) /\ SingleOthers(mTuples, id)) =>
                 /\ \E k \in 1..Len(merged_tuples) :
                       /\ merged_tuples[k].dom_id = id
                       /\ merged_tuples[k].start = MinStart(mTuples, id)
                       /\ merged_tuples[k].end = MaxEnd(mTuples, id)
                       /\ \A l \in 1..Len(merged_tuples) :
                             merged_tuples[l].dom_id = id => l = k
                 /\ \A i \in 1..Len(mTuples) :
                       mTuples[i].dom_id # id =>
                          \E l \in 1..Len(merged_tuples) :
                             /\ merged_tuples[l].dom_id = mTuples[i].dom_id
                             /\ merged_tuples[l].start = mTuples[i].start
                             /\ merged_tuples[l].end = mTuples[i].end

SortedByStart(ts) ==
    \A i, j \in 1..Len(ts) : i < j => ts[i].start <= ts[j].start

(* C4: every ordering of the input hits gives the same output list, and    *)
(* that list is sorted by start.                                           *)
C4_OrderIndependent ==
    MergeDone =>
        /\ SortedByStart(merged_tuples)
        /\ \A p \in Orderings(mTuples) :
              merge_overlapping_domains(p) = merged_tuples

RealEvalues(ts) ==
    {ts[k].evalue[1] : k \in {k \in 1..Len(ts) : ts[k].evalue # None /\ ts[k].evalue # Some(0)}}

(* C5: when same-identity hits are merged into one hit, that hit holds the *)
(* smallest real (present, non-zero) e-value of the merged hits; a missing *)
(* or zero e-value never replaces a real one.                              *)
C5_KeepsRealSignificance ==
    (MergeDone /\ Len(merged_tuples) = 1 /\ RealEvalues(mTuples) # {}) =>
        /\ merged_tuples[1].evalue # None
        /\ merged_tuples[1].evalue[1] \in RealEvalues(mTuples)
        /\ \A v \in RealEvalues(mTuples) : merged_tuples[1].evalue[1] <= v

----------------------------------------------------------------------------
(* Specification SpecOverlap: is_overlap applied to one pair of hits *)

(* tests/unit/test_domain.py: the hits of test_domain_overlap *)
TestOverlapHits ==
    {MkDomain("A", 1, 100, 50, None, 200), MkDomain("A", 50, 150, 60, None, 200),
     MkDomain("A", 200, 300, 70, None, 300)}

OverlapHits ==
    {d \in {MkDomain("A", s, e, 10, None, MaxOvPos + 1) :
                s \in 0..MaxOvPos, e \in 0..MaxOvPos} : d.start <= d.end}
        \cup TestOverlapHits

Thresholds == {<<0, 1>>, DefaultOverlap, <<1, 2>>, <<1, 1>>}

InitOverlap ==
    /\ dom1 \in {Some(d) : d \in OverlapHits}
    /\ dom2 \in {Some(d) : d \in OverlapHits}
    /\ mutual_overlap \in Thresholds
    /\ oResult = None
    /\ opc = "call"
    /\ MergeIdle
    /\ FamilyIdle
    /\ HoleIdle
    /\ BatchIdle
    /\ RegionIdle

(* is_overlap(dom1, dom2, mutual_overlap) *)
CallIsOverlap ==
    /\ opc = "call"
    /\ oResult' = IF is_overlap_raises(dom1[1], dom2[1])
                  THEN Some([raised |-> TRUE, value |-> FALSE])
                  ELSE Some([raised |-> FALSE,
                             value |-> is_overlap(dom1[1], dom2[1], mutual_overlap)])
    /\ opc' = "done"
    /\ UNCHANGED <<dom1, dom2, mutual_overlap, mergeVars, familyVars, holeVars,
                   batchVars, regionVars>>

NextOverlap == CallIsOverlap

SpecOverlap == InitOverlap /\ [][NextOverlap]_vars

(* C6: is_overlap(A, B, t) is true exactly when                            *)
(* overlap = min(A.end, B.end) - max(A.start, B.start) is > 0 and          *)
(* overlap / min(A.end - A.start, B.end - B.start) >= t; it is symmetric   *)
(* in A and B, true for [1,100] vs [50,150] at t = 0.2 and false for       *)
(* [1,100] vs [200,300].                                                   *)
C6_OverlapPredicate ==
    opc = "done" =>
        LET A == dom1[1]
            B == dom2[1]
            overlap == Min(A.end, B.end) - Max(A.start, B.start)
            shorter == Min(A.end - A.start, B.end - B.start)
            value == oResult[1].value
        IN /\ ~oResult[1].raised
           /\ value <=> (/\ overlap > 0
                         /\ shorter > 0
                         /\ FracLeq(mutual_overlap, <<overlap, shorter>>))
           /\ overlap > 0 => shorter > 0
           /\ value <=> is_overlap(B, A, mutual_overlap)
           /\ (A.start = 1 /\ A.end = 100 /\ B.start = 50 /\ B.end = 150
                 /\ mutual_overlap = DefaultOverlap) => value
           /\ (A.start = 1 /\ A.end = 100 /\ B.start = 200 /\ B.end = 300) => ~value

(* the threshold decides: the hits share residues, yet fall below 0.2 *)
C6_Witness ==
    /\ opc = "done"
    /\ mutual_overlap = DefaultOverlap
    /\ OverlapLength(dom1[1], dom2[1]) > 0
    /\ ~oResult[1].value

----------------------------------------------------------------------------
(* Specification Spec: the construction of one RescueFamily *)

PipeIds == {"A", "B", "C"}

(* the hit names of the families of at most MaxFamilyHits rows *)
SmallIds == {"A", "B"}

(* e-values 1.0 and e^-1 *)
PipeEvalues == {EOne, EOne - 1}

(* the rows of the hit table: hits of at least two residues on 1..PipePos *)
PipeRows ==
    {r \in [dom_id : PipeIds, start : 1..PipePos, end : 1..PipePos,
            bitscore : {10}, evalue : PipeEvalues] : r.start < r.end}

(* the lists of n rows of one system, in an order sort_values('hit start') *)
(* can give                                                                *)
RawHitLists ==
    [n \in 1..MaxSystemHits |->
        {rows \in [1..n -> {r \in PipeRows : r.dom_id \in SmallIds}] : SortedByStart(rows)}]

RowsUsed == SumSeq([i \in 1..Len(rescue_data) |-> Len(rescue_data[i])])

Init ==
    /\ pc = "load"
    /\ idx = 0
    /\ merge_overlapping \in BOOLEAN
    /\ rescue_data = <<>>
    /\ systems = <<>>
    /\ votes = <<>>
    /\ sorted_scores = <<>>
    /\ statistics = EmptyDict
    /\ characteristic_domains = {}
    /\ char_domain_map = None
    /\ MergeIdle
    /\ OverlapIdle
    /\ HoleIdle
    /\ BatchIdle
    /\ RegionIdle

(* the sequence lengths of the systems *)
PipeLens == {PipePos - 1, PipePos}

(* rows of pairwise different hit names in increasing order of (start,     *)
(* end, hit name), all of the smaller e-value                              *)
IdRank(id) == IF id = "A" THEN 1 ELSE IF id = "B" THEN 2 ELSE 3
RowKey(r) == (r.start * (PipePos + 1) + r.end) * 4 + IdRank(r.dom_id)
Canonical(rows) ==
    /\ \A i \in 1..Len(rows) : rows[i].evalue = EOne - 1
    /\ \A i, j \in 1..Len(rows) : i # j => rows[i].dom_id # rows[j].dom_id
    /\ \A i \in 1..(Len(rows) - 1) : RowKey(rows[i]) < RowKey(rows[i + 1])

CanonicalHitLists ==
    [n \in 1..MaxSystemHits |-> {rows \in [1..n -> PipeRows] : Canonical(rows)}]

(* every system so far has canonical rows and a full-length sequence *)
RankedSoFar ==
    /\ \A i \in 1..Len(rescue_data) : Canonical(rescue_data[i])
    /\ \A i \in 1..Len(systems) : systems[i].sys_len = PipePos

(* the families explored: any family of at most MaxFamilyHits rows named   *)
(* in SmallIds, and the families of at most MaxRankedHits canonical rows   *)
(* on full-length sequences. HitLists(n) and SeqLens(n) are the choices of a next system  *)
(* of n rows                                                               *)
HitLists(n) ==
    IF RowsUsed + n <= MaxFamilyHits THEN RawHitLists[n]
    ELSE IF RowsUsed + n <= MaxRankedHits /\ RankedSoFar THEN CanonicalHitLists[n]
    ELSE {}

SeqLens(n) == IF RowsUsed + n <= MaxFamilyHits THEN PipeLens ELSE {PipePos}

(* FamilyService._get_systems: one iteration of the loop over system_ids;  *)
(* a ValueError of _merge_domains leaves _get_systems and __init__         *)
GetSystem ==
    /\ pc = "load"
    /\ Len(systems) < MaxSystems
    /\ \E n \in 1..MaxSystemHits : \E rows \in HitLists(n) : \E sys_len \in SeqLens(n) :
          LET domains == _get_domains(sys_len, rows)
          IN /\ rescue_data' = Append(rescue_data, rows)
             /\ IF merge_overlapping /\ _merge_domains_raises(domains, sys_len)
                THEN /\ pc' = "failed"
                     /\ UNCHANGED systems
                ELSE /\ pc' = pc
                     /\ systems' = Append(systems,
                              System(sys_len, IF merge_overlapping
                                              THEN _merge_domains(domains, sys_len)
                                              ELSE domains))
    /\ UNCHANGED <<idx, merge_overlapping, votes, sorted_scores, statistics,
                   characteristic_domains, char_domain_map, mergeVars, overlapVars,
                   holeVars, batchVars, regionVars>>

(* Family.__post_init__, run by super().__init__ *)
FamilyPostInit ==
    /\ pc = "load"
    /\ IF merge_overlapping
          /\ \E i \in 1..Len(systems) : _merge_system_domains_raises(systems[i])
       THEN /\ pc' = "failed"
            /\ UNCHANGED <<systems, statistics, characteristic_domains>>
       ELSE /\ systems' = _process_systems(systems, merge_overlapping)
            /\ statistics' = _calculate_statistics(systems')
            /\ characteristic_domains' =
                   _identify_characteristic_domains(systems', statistics')
            /\ pc' = "first"
    /\ idx' = 0
    /\ UNCHANGED <<merge_overlapping, rescue_data, votes, sorted_scores,
                   char_domain_map, mergeVars, overlapVars, holeVars, batchVars, regionVars>>

(* filter_domains, lines 65-106: the first loop's body for one system *)
FirstPass ==
    /\ pc = "first"
    /\ idx < Len(systems)
    /\ LET sys == systems[idx + 1]
           sys_domains == NonHoles(sys.domains)
           nodes == GraphNodes(sys_domains, <<>>)
           node_domain == GraphNodeDomain(sys_domains, EmptyDict)
           edges == GraphEdges(sys_domains)
           components == ConnectedComponents(nodes, SeqToSet(nodes), edges, {})
       IN \E perm \in Orderings(nodes) :
             LET selected == SelectAll(components, 1, perm, node_domain, sys.sys_len,
                                       <<>>, votes)
                 pool == Flatten([k \in 1..Len(components) |->
                                    [n \in 1..Len(IterOrder(components[k], perm)) |->
                                        node_domain[IterOrder(components[k], perm)[n]]]])
             IN /\ systems' = [systems EXCEPT ![idx + 1] =
                                 [sys EXCEPT !.sys_domains = sys_domains,
                                             !.sys_new_domains = selected[1],
                                             !.nodes = nodes,
                                             !.node_domain = node_domain,
                                             !.edges = edges,
                                             !.connected_components = components,
                                             !.overlapping_domains = pool,
                                             !.domains = selected[1]]]
                /\ votes' = selected[2]
    /\ idx' = idx + 1
    /\ UNCHANGED <<pc, merge_overlapping, rescue_data, sorted_scores, statistics,
                   characteristic_domains, char_domain_map, mergeVars, overlapVars,
                   holeVars, batchVars, regionVars>>

(* the first loop left after its first system *)
FirstLoopOver_Early == idx >= 1

(* the first loop of filter_domains has run for every system *)
FirstLoopOver == idx = Len(systems)

(* filter_domains, lines 108-118: sorted_votes, scores and sorted_scores *)
Tally ==
    /\ pc = "first"
    /\ FirstLoopOver
    /\ sorted_scores' = SortDesc("scores", Scores(systems, votes, SortDesc("votes", votes)))
    /\ pc' = IF systems = <<>> THEN "done" ELSE "subst"
    /\ idx' = 0
    /\ UNCHANGED <<merge_overlapping, rescue_data, systems, votes, statistics,
                   characteristic_domains, char_domain_map, mergeVars, overlapVars,
                   holeVars, batchVars, regionVars>>

(* filter_domains, lines 120-134: the second loop's body for one system *)
Substitute ==
    /\ pc = "subst"
    /\ idx < Len(systems)
    /\ systems' = [systems EXCEPT ![idx + 1].domains =
                      SubstituteSystem(@, sorted_scores, systems[idx + 1].domain_map)]
    /\ pc' = IF idx + 1 = Len(systems) THEN "fill" ELSE "subst"
    /\ idx' = IF idx + 1 = Len(systems) THEN 0 ELSE idx + 1
    /\ UNCHANGED <<merge_overlapping, rescue_data, votes, sorted_scores, statistics,
                   characteristic_domains, char_domain_map, mergeVars, overlapVars,
                   holeVars, batchVars, regionVars>>

(* filter_domains, lines 135-137: sys.fill_holes() and sys.get_holes() for *)
(* one system; a ValueError of fill_holes leaves filter_domains            *)
FillAndName ==
    /\ pc = "fill"
    /\ idx < Len(systems)
    /\ LET sys == systems[idx + 1]
       IN IF fill_holes_raises(sys.domains, sys.sys_len)
          THEN /\ pc' = "failed"
               /\ UNCHANGED <<systems, idx>>
          ELSE /\ systems' = [systems EXCEPT ![idx + 1] =
                                 get_holes(fill_holes(sys), HoleThreshold, HoleMargin)]
               /\ pc' = IF idx + 1 = Len(systems) THEN "done" ELSE "fill"
               /\ idx' = IF idx + 1 = Len(systems) THEN 0 ELSE idx + 1
    /\ UNCHANGED <<merge_overlapping, rescue_data, votes, sorted_scores, statistics,
                   characteristic_domains, char_domain_map, mergeVars, overlapVars,
                   holeVars, batchVars, regionVars>>

Next == GetSystem \/ FamilyPostInit \/ FirstPass \/ Tally \/ Substitute \/ FillAndName

Spec == Init /\ [][Next]_vars

----------------------------------------------------------------------------
(* Claims about the first pass and the tallies of filter_domains, checked  *)
(* under Spec                                                              *)

(* the first loop of filter_domains has processed system i *)
FirstPassDone(i) == (pc = "first" /\ i <= idx) \/ pc = "subst"

(* system i holds its representatives, not yet substituted *)
Selected(i) == (pc = "first" /\ i <= idx) \/ (pc = "subst" /\ i > idx)

(* the first loop has processed every system, the tallies may follow *)
AfterFirstPass == (pc = "first" /\ idx = Len(systems)) \/ (pc = "subst" /\ idx = 0)

(* the hits (indices of hits) linked to hit h by a chain of conflicts *)
RECURSIVE HitReach(_, _)
HitReach(S, hits) ==
    LET S2 == S \cup {j \in 1..Len(hits) :
                        \E i \in S : \/ is_overlap(hits[i], hits[j], DefaultOverlap)
                                     \/ is_overlap(hits[j], hits[i], DefaultOverlap)}
    IN IF S2 = S THEN S ELSE HitReach(S2, hits)

(* the conflict clusters of a list of hits: the classes of the chain relation *)
ConflictClusters(hits) == {HitReach({h}, hits) : h \in 1..Len(hits)}

HitsOf(K, hits) == {hits[h] : h \in K}

(* the components of the graph of system sys that hold hit number h *)
ComponentsOfHit(sys, h) ==
    {k \in 1..Len(sys.connected_components) :
        \E n \in sys.connected_components[k] :
            /\ n = sys.sys_domains[h].dom_id
            /\ sys.node_domain[n] = sys.sys_domains[h]}

(* C7: the conflict graph of a protein has one node per non-gap hit; every *)
(* non-gap hit belongs to exactly one conflict cluster, and two hits are   *)
(* in the same cluster exactly when a chain of pairwise conflicts          *)
(* (is_overlap at 0.2) links them, also with several hits of one identity. *)
C7_OneNodePerHit ==
    \A i \in 1..Len(systems) : FirstPassDone(i) =>
        LET sys == systems[i]
            hits == sys.sys_domains
        IN /\ Len(sys.nodes) = Len(hits)
           /\ \A h \in 1..Len(hits) : Cardinality(ComponentsOfHit(sys, h)) = 1
           /\ \A h1, h2 \in 1..Len(hits) :
                 (ComponentsOfHit(sys, h1) \cap ComponentsOfHit(sys, h2) # {})
                     <=> h2 \in HitReach({h1}, hits)

(* the entries of the selected list that are hits of cluster K *)
RepresentativesOf(sys, K) ==
    {k \in 1..Len(sys.domains) : sys.domains[k] \in HitsOf(K, sys.sys_domains)}

(* C8: for every protein and every conflict cluster the first pass selects *)
(* exactly one representative, a hit of that cluster; the selected list    *)
(* has as many entries as the protein has clusters.                        *)
C8_OneRepresentativePerCluster ==
    \A i \in 1..Len(systems) : Selected(i) =>
        LET sys == systems[i]
            clusters == ConflictClusters(sys.sys_domains)
        IN /\ \A K \in clusters : Cardinality(RepresentativesOf(sys, K)) = 1
           /\ Len(sys.domains) = Cardinality(clusters)

VoteOf(id) == IF DictHas(votes, id) THEN DictGet(votes, id) ELSE 0

(* the clusters of system sys whose representative has identity id *)
ClustersWonBy(sys, id) ==
    {K \in ConflictClusters(sys.sys_domains) :
        \E k \in RepresentativesOf(sys, K) : sys.domains[k].dom_id = id}

(* the sum of the votes of the identities in S *)
RECURSIVE SumVotes(_)
SumVotes(S) ==
    IF S = {} THEN 0
    ELSE LET x == CHOOSE x \in S : TRUE IN VoteOf(x) + SumVotes(S \ {x})

(* C9: after the first pass votes[id] is the number of (protein, cluster)  *)
(* pairs whose representative has identity id, so the votes sum to the     *)
(* number of clusters of the family; an identity that wins a cluster in    *)
(* each of 2 proteins has votes 2.                                         *)
C9_VotesCountClusters ==
    AfterFirstPass =>
        LET Won(id) == SumSeq([i \in 1..Len(systems) |->
                                  Cardinality(ClustersWonBy(systems[i], id))])
            NClusters == SumSeq([i \in 1..Len(systems) |->
                                  Cardinality(ConflictClusters(systems[i].sys_domains))])
        IN /\ \A id \in PipeIds : VoteOf(id) = Won(id)
           /\ SumVotes(PipeIds) = NClusters
           /\ \A id \in PipeIds :
                 (Len(systems) = 2 /\ \A i \in 1..2 :
                        Cardinality(ClustersWonBy(systems[i], id)) = 1)
                     => VoteOf(id) = 2

(* the sum of the coverage of the hits of identity id in a list *)
RECURSIVE CoverageOf(_, _)
CoverageOf(hits, id) ==
    IF hits = <<>> THEN <<0, 1>>
    ELSE IF Head(hits).dom_id = id
         THEN FracAdd(Head(hits).coverage, CoverageOf(Tail(hits), id))
         ELSE CoverageOf(Tail(hits), id)

(* C10: the global score of an identity is votes[id] times the sum of the  *)
(* coverage of every hit of that identity that was in a cluster of any     *)
(* protein (every hit, when a protein has several of that identity);       *)
(* identities are ranked by score descending, ties in the order in which   *)
(* they were first encountered.                                            *)
C10_GlobalScore ==
    pc = "subst" =>
        LET pool == Flatten([i \in 1..Len(systems) |-> systems[i].sys_domains])
            Expected(id) == LET c == CoverageOf(pool, id)
                            IN <<VoteOf(id) * c[1], c[2]>>
            Pos(id) == CHOOSE k \in 1..Len(votes) : votes[k].key = id
        IN /\ Len(sorted_scores) = Len(votes)
           /\ \A k \in 1..Len(sorted_scores) :
                 /\ DictHas(votes, sorted_scores[k].key)
                 /\ FracEq(sorted_scores[k].value, Expected(sorted_scores[k].key))
           /\ \A k, l \in 1..Len(sorted_scores) : k < l =>
                 \/ FracLess(sorted_scores[l].value, sorted_scores[k].value)
                 \/ /\ FracEq(sorted_scores[l].value, sorted_scores[k].value)
                    /\ Pos(sorted_scores[k].key) < Pos(sorted_scores[l].key)

----------------------------------------------------------------------------
(* Claims about the substitution pass of filter_domains, checked under Spec *)

(* system i holds the result of the substitution pass, not yet gap-filled *)
Substituted(i) == (pc = "subst" /\ i <= idx) \/ (pc = "fill" /\ i > idx)

(* the rank of the first entry of ranked at which the walk for D is to     *)
(* stop: D's own identity, or an identity with a hit that overlaps D       *)
StopRanks(D, ranked, domain_map) ==
    {k \in 1..Len(ranked) :
        \/ ranked[k].key = D.dom_id
        \/ /\ ranked[k].key \in DOMAIN domain_map
           /\ FirstOverlapping(D, domain_map[ranked[k].key]) # None}

(* the entry that takes the place of D when the walk stops there *)
FirstSubstitute(D, ranked, domain_map) ==
    IF StopRanks(D, ranked, domain_map) = {} THEN D
    ELSE LET k == CHOOSE k \in StopRanks(D, ranked, domain_map) :
                     \A l \in StopRanks(D, ranked, domain_map) : k <= l
         IN IF ranked[k].key = D.dom_id THEN D
            ELSE FirstOverlapping(D, domain_map[ranked[k].key])[1]

(* C11: in the substitution pass the walk of the ranked identities for a   *)
(* selected domain D stops at the first identity, other than D's own, that *)
(* has a hit in the identity index overlapping D, and D is replaced by the *)
(* first such hit, or at D's own identity with no substitution: nothing    *)
(* further down the ranking replaces D again.                              *)
C11_FirstRankedSubstituteWins ==
    \A i \in 1..Len(systems) :
        Substituted(i) =>
            /\ Len(systems[i].domains) = Len(systems[i].sys_new_domains)
            /\ \A k \in 1..Len(systems[i].domains) :
                  systems[i].domains[k] =
                      FirstSubstitute(systems[i].sys_new_domains[k], sorted_scores,
                                      systems[i].domain_map)

(* the substitution pass has run for system i *)
Resolved(i) == (pc = "subst" /\ i <= idx) \/ pc \in {"fill", "done"}

(* the resolved non-gap domain list of system i *)
ResolvedDomains(i) == NonHoles(systems[i].domains)

(* C12: after representative selection and substitution, no two entries at *)
(* different positions of a protein's resolved non-gap domain list         *)
(* conflict under the 0.2 mutual-overlap predicate, and no hit is listed   *)
(* twice.                                                                  *)
C12_ResolvedListConflictFree ==
    \A i \in 1..Len(systems) :
        Resolved(i) =>
            \A a, b \in 1..Len(ResolvedDomains(i)) :
                a # b =>
                    /\ ~is_overlap(ResolvedDomains(i)[a], ResolvedDomains(i)[b],
                                   DefaultOverlap)
                    /\ ResolvedDomains(i)[a] # ResolvedDomains(i)[b]

(* a resolved list of at least two entries, one of them a substitute *)
C12_Witness ==
    \E i \in 1..Len(systems) :
        /\ pc = "done"
        /\ Len(ResolvedDomains(i)) >= 2
        /\ \E a \in 1..Len(ResolvedDomains(i)) :
              \A k \in 1..Len(systems[i].sys_new_domains) :
                  systems[i].sys_new_domains[k] # ResolvedDomains(i)[a]

(* every system has had its clusters built and its representatives chosen, *)
(* and every representative has been counted in votes and scored           *)
AllTallied ==
    /\ \A j \in 1..Len(systems) :
          /\ systems[j].connected_components # <<>>
          /\ Len(systems[j].sys_new_domains) = Len(systems[j].connected_components)
    /\ SumVotes(PipeIds) = SumSeq([j \in 1..Len(systems) |->
                                      Len(systems[j].sys_new_domains)])
    /\ Len(sorted_scores) = Len(votes)

(* C13: family resolution runs in two full passes: the domain list of a    *)
(* protein that has its representatives is changed only when every protein *)
(* of the family has had its clusters built, representatives chosen and    *)
(* votes counted, and the substitution pass leaves the vote and score      *)
(* tallies as they are.                                                    *)
C13_TwoFullPasses ==
    [][/\ (\E i \in 1..Len(systems) :
              /\ systems[i].connected_components # <<>>
              /\ Len(systems') = Len(systems)
              /\ systems'[i].domains # systems[i].domains)
          => AllTallied
       /\ pc = "subst"
          => (AllTallied /\ votes' = votes /\ sorted_scores' = sorted_scores)]_vars

(* the substitution pass has replaced a representative of the first of two *)
(* systems                                                                 *)
C13_Witness ==
    /\ pc = "subst"
    /\ Len(systems) = 2
    /\ idx = 1
    /\ systems[1].domains # systems[1].sys_new_domains

----------------------------------------------------------------------------
(* Claims about failures, checked under Spec *)

(* C14: an exception raised while merging, resolving or hole-finding one   *)
(* protein is caught at the protein boundary: it never ends the            *)
(* construction of the family, whose other proteins are still processed.   *)
C14_FailureIsolated == pc # "failed"

----------------------------------------------------------------------------
(* Specification SpecBatch: cli.main.process_families over one batch. A     *)
(* family is described by what its part of the try block does: "ok", or    *)
(* the call that raises an Exception (create_family, as when the           *)
(* construction of a RescueFamily fails, the plots, or generate_csv_data), *)
(* and by its number of systems, one CSV row each.                         *)

Outcomes == {"ok", "create_raises", "plot_raises", "csv_raises"}

FamilyKinds == [outcome : Outcomes, systems : 0..MaxRows]

Batches == UNION {[1..n -> FamilyKinds] : n \in 0..MaxBatch}

(* lines 80-103: TRUE when the try block raises for family f *)
TryRaises(f) ==
    \/ f.outcome = "create_raises"
    \/ config_dict.plot_types /\ f.outcome = "plot_raises"
    \/ config_dict.data_file /\ f.outcome = "csv_raises"

(* FamilyService.generate_csv_data: one row per system of family i *)
generate_csv_data(i, f) == [k \in 1..f.systems |-> <<i, k>>]

(* the loop abandoned at the first exception *)
AfterExcept_Abort(i) == Len(batch)

(* lines 105-107: except Exception ... continue; the families taken after  *)
(* the exception in family i + 1                                           *)
AfterExcept(i) == i + 1

InitBatch ==
    /\ batch \in Batches
    /\ config_dict \in [plot_types : BOOLEAN, data_file : BOOLEAN]
    /\ bidx = 0
    /\ visited = <<>>
    /\ csv_rows = <<>>
    /\ bpc = "loop"
    /\ MergeIdle
    /\ OverlapIdle
    /\ FamilyIdle
    /\ HoleIdle
    /\ RegionIdle

(* lines 77-107: one iteration of the loop over unique_family_ids *)
ProcessFamily ==
    /\ bpc = "loop"
    /\ bidx < Len(batch)
    /\ visited' = Append(visited, bidx + 1)
    /\ IF TryRaises(batch[bidx + 1])
       THEN /\ bidx' = AfterExcept(bidx)
            /\ UNCHANGED csv_rows
       ELSE /\ bidx' = bidx + 1
            /\ csv_rows' = IF config_dict.data_file
                           THEN csv_rows \o generate_csv_data(bidx + 1, batch[bidx + 1])
                           ELSE csv_rows
    /\ UNCHANGED <<batch, config_dict, bpc, mergeVars, overlapVars, familyVars, holeVars,
                   regionVars>>

(* lines 65-67 and 116: return csv_rows *)
ReturnRows ==
    /\ bpc = "loop"
    /\ bidx >= Len(batch)
    /\ bpc' = "returned"
    /\ UNCHANGED <<batch, config_dict, bidx, visited, csv_rows, mergeVars, overlapVars,
                   familyVars, holeVars, regionVars>>

NextBatch == ProcessFamily \/ ReturnRows

SpecBatch == InitBatch /\ [][NextBatch]_vars

(* the CSV rows of the first n families whose try block does not raise *)
RECURSIVE Collected(_)
Collected(n) ==
    IF n = 0 THEN <<>>
    ELSE Collected(n - 1)
            \o (IF config_dict.data_file /\ ~TryRaises(batch[n])
                THEN generate_csv_data(n, batch[n]) ELSE <<>>)

(* C15: in process_families an exception raised while creating or          *)
(* processing one family is caught: every family of the batch is taken in  *)
(* turn, also after a failure, and the rows collected from the families    *)
(* that did not fail are returned.                                         *)
C15_BatchSurvivesFailure ==
    /\ bpc \in {"loop", "returned"} =>
          /\ visited = [i \in 1..Len(visited) |-> i]
          /\ Len(visited) = bidx
          /\ csv_rows = Collected(bidx)
    /\ bpc = "returned" => Len(visited) = Len(batch)

(* a batch returned with rows from before and from after a failed family *)
C15_Witness ==
    /\ bpc = "returned"
    /\ \E i, j, k \in 1..Len(batch) :
          /\ i < j /\ j < k
          /\ TryRaises(batch[j])
          /\ \E r \in 1..Len(csv_rows) : csv_rows[r][1] = i
          /\ \E r \in 1..Len(csv_rows) : csv_rows[r][1] = k

----------------------------------------------------------------------------
(* Specification SpecHoles: System.fill_holes, called once or twice, and    *)
(* System.get_holes(thresh, margin) on one System built from a list of     *)
(* domains on the positions 0..HolePos                                     *)

HoleIds == {"A", "B"}

HoleRows ==
    {r \in [dom_id : HoleIds, start : 0..HolePos, end : 0..HolePos,
            bitscore : {1, 2}, evalue : {EOne}] : r.start <= r.end}

(* the sequence lengths: no sequence, and sequences that end at, one after *)
(* and two after the last position of a domain                             *)
HoleLens == {0} \cup (HolePos..(HolePos + 2))

HoleDomainLists(sys_len) ==
    UNION {{[i \in 1..n |-> RowDomain(rows[i], sys_len)] : rows \in [1..n -> HoleRows]} :
              n \in 0..MaxHoleDomains}

InitHoles ==
    /\ \E sys_len \in HoleLens : \E domains \in HoleDomainLists(sys_len) :
          hsys = System(sys_len, domains)
    /\ hfilled = None
    /\ hargs = None
    /\ hpc = "new"
    /\ MergeIdle
    /\ OverlapIdle
    /\ FamilyIdle
    /\ BatchIdle
    /\ RegionIdle

(* System.fill_holes(), the first and the second call *)
CallFillHoles ==
    /\ hpc \in {"new", "filled"}
    /\ IF fill_holes_raises(hsys.domains, hsys.sys_len)
       THEN /\ hpc' = "raised"
            /\ UNCHANGED <<hsys, hfilled>>
       ELSE /\ hsys' = fill_holes(hsys)
            /\ hfilled' = IF hpc = "new" THEN Some(hsys'.domains) ELSE hfilled
            /\ hpc' = IF hpc = "new" THEN "filled" ELSE "refilled"
    /\ UNCHANGED <<hargs, mergeVars, overlapVars, familyVars, batchVars, regionVars>>

(* System.get_holes(thresh, margin) on the gap-filled System *)
CallGetHoles ==
    /\ hpc = "filled"
    /\ \E thresh \in 1..MaxThresh : \E margin \in 1..MaxMargin :
          /\ hsys' = get_holes(hsys, thresh, margin)
          /\ hargs' = Some(<<thresh, margin>>)
    /\ hpc' = "named"
    /\ UNCHANGED <<hfilled, mergeVars, overlapVars, familyVars, batchVars, regionVars>>

NextHoles == CallFillHoles \/ CallGetHoles

SpecHoles == InitHoles /\ [][NextHoles]_vars

----------------------------------------------------------------------------
(* Claims about fill_holes and get_holes, checked under SpecHoles *)

(* the positions that the entries of a list cover *)
PositionsOf(domains) ==
    UNION {domains[i].start..domains[i].end : i \in 1..Len(domains)}

(* no two entries of a list conflict under the 0.2 predicate: a resolved   *)
(* domain set                                                              *)
PairwiseResolved(domains) ==
    \A a, b \in 1..Len(domains) :
        a # b => ~is_overlap(domains[a], domains[b], DefaultOverlap)

(* every entry of a list ends inside a sequence of L residues *)
InsideSequence(domains, L) == \A i \in 1..Len(domains) : domains[i].end <= L - 1

(* C16: after fill_holes on a protein of length L > 0 the positions        *)
(* covered by the gap entries of System.domains are exactly the positions  *)
(* of 0..L-1 that no non-gap domain covers. Stated for a resolved domain   *)
(* set that lies inside the sequence.                                      *)
C16_GapsAreTheUncoveredPositions ==
    (/\ hpc = "filled"
     /\ hsys.sys_len > 0
     /\ PairwiseResolved(NonHoles(hsys.domains))
     /\ InsideSequence(NonHoles(hsys.domains), hsys.sys_len))
        => PositionsOf(Holes(hsys.domains))
              = (0..(hsys.sys_len - 1)) \ PositionsOf(NonHoles(hsys.domains))

(* C17: every gap entry created by fill_holes has coverage equal to its    *)
(* inclusive length (end - start + 1) divided by the protein length, and   *)
(* coverage 0 when the protein length is not positive.                     *)
C17_GapCoverageIsLengthOverProtein ==
    hpc = "filled" =>
        \A i \in 1..Len(hsys.domains) :
            hsys.domains[i].type = "hole" =>
                LET gap == hsys.domains[i]
                IN IF hsys.sys_len > 0
                   THEN FracEq(gap.coverage, <<gap.end - gap.start + 1, hsys.sys_len>>)
                   ELSE FracEq(gap.coverage, <<0, 1>>)

(* C18: fill_holes is idempotent on the domain sequence: a second call on  *)
(* the gap-filled System leaves System.domains with the same domains and   *)
(* the same gaps, and no gap is listed twice.                              *)
C18_FillHolesIdempotent ==
    hpc = "refilled" =>
        /\ hsys.domains = hfilled[1]
        /\ \A a, b \in 1..Len(hsys.domains) :
              (a # b /\ hsys.domains[a].type = "hole") => hsys.domains[a] # hsys.domains[b]

(* a second call on a System with a domain between two gaps *)
C18_Witness ==
    /\ hpc = "refilled"
    /\ Len(Holes(hsys.domains)) >= 2
    /\ Len(NonHoles(hsys.domains)) >= 1

(* the inclusive length of an entry *)
LengthOf(d) == d.end - d.start + 1

(* C19: get_holes(thresh, margin) records a named gap for every gap entry  *)
(* of length (end - start + 1) >= thresh and for no shorter one; a gap of  *)
(* length exactly thresh is named.                                         *)
C19_NamesGapsOfThresholdLength ==
    hpc = "named" =>
        {<<hsys.holes[k].start, hsys.holes[k].end>> : k \in 1..Len(hsys.holes)}
            = {<<hsys.domains[i].start, hsys.domains[i].end>> :
                  i \in {i \in 1..Len(hsys.domains) :
                            /\ hsys.domains[i].type = "hole"
                            /\ LengthOf(hsys.domains[i]) >= hargs[1][1]}}

(* the label of one side: the identity of the first non-gap domain of      *)
(* highest score that covers position p, or the default                    *)
SideLabel(p, default) ==
    LET covering == SelectSeq(NonHoles(hsys.domains),
                              LAMBDA d : d.start <= p /\ p <= d.end)
    IN IF covering = <<>> THEN default ELSE BestByBitscore(covering).dom_id

(* C20: the label of every named gap is <L> to <R>, L the identity of the  *)
(* highest-score non-gap domain that covers gap.start - margin, or BEGIN,  *)
(* and R that of the highest-score non-gap domain that covers              *)
(* gap.end + margin, or END, each side chosen independently, the first     *)
(* maximum winning a tie; neither is the identity of a gap entry.          *)
C20_LabelFromFlankingDomains ==
    hpc = "named" =>
        \A k \in 1..Len(hsys.holes) :
            LET gap == hsys.holes[k]
            IN /\ gap.best_name = <<SideLabel(gap.start - hargs[1][2], "BEGIN"),
                                    SideLabel(gap.end + hargs[1][2], "END")>>
               /\ gap.best_name[1] # "-1"
               /\ gap.best_name[2] # "-1"

----------------------------------------------------------------------------
(* Specification SpecIdentify: System._identify_holes(threshold, margin)    *)
(* called on a System whose domain list holds only non-gap domains         *)

(* tests/unit/test_system.py, test_hole_detection: the domains and the     *)
(* sequence length                                                         *)
TestSystemLen == 120
TestSystemDomains ==
    <<MkDomain("A", 1, 50, 10, None, 500), MkDomain("B", 61, 100, 20, None, 500)>>

(* the Systems of the calls: up to MaxIdentifyDomains domains on           *)
(* 0..IdentifyPos, a System without sequence, and the System of the test   *)
IdentifyInputs ==
    LET hits == {d \in {MkDomain(id, s, e, 10, None, IdentifyPos + 1) :
                           id \in {"A", "B"}, s \in 0..IdentifyPos, e \in 0..IdentifyPos} :
                    d.start <= d.end}
    IN {<<IdentifyPos + 1, domains>> : domains \in SeqsUpTo(hits, MaxIdentifyDomains)}
          \cup {<<0, domains>> : domains \in SeqsUpTo(hits, 1)}
          \cup {<<TestSystemLen, TestSystemDomains>>}

InitIdentify ==
    /\ \E in \in IdentifyInputs : hsys = System(in[1], in[2])
    /\ hfilled = None
    /\ hargs = None
    /\ hpc = "built"
    /\ MergeIdle
    /\ OverlapIdle
    /\ FamilyIdle
    /\ BatchIdle
    /\ RegionIdle

(* system._identify_holes(threshold, margin): no statement of its try      *)
(* block raises                                                            *)
CallIdentifyHoles ==
    /\ hpc = "built"
    /\ \E threshold \in 1..MaxIdentifyThreshold : \E margin \in 0..MaxIdentifyMargin :
          LET found == _identify_holes(hsys.domains, hsys.sys_len, threshold, margin)
          IN /\ hsys' = [hsys EXCEPT !.domains = found.domains, !.holes = found.holes]
             /\ hargs' = Some(<<threshold, margin>>)
    /\ hpc' = "identified"
    /\ UNCHANGED <<hfilled, mergeVars, overlapVars, familyVars, batchVars, regionVars>>

NextIdentify == CallIdentifyHoles

SpecIdentify == InitIdentify /\ [][NextIdentify]_vars

(* the start-adjacent pairs (i, i + 1) of a list sorted by start whose gap *)
(* with the margin taken off both sides ends after its start and has at    *)
(* least threshold residues                                                *)
QualifyingPairs(sorted, threshold, margin) ==
    {i \in 1..(Len(sorted) - 1) :
        LET s == sorted[i].end + margin
            e == sorted[i + 1].start - margin
        IN e > s /\ e - s + 1 >= threshold}

(* C21: _identify_holes(threshold, margin) on a protein whose domain list  *)
(* holds only non-gap domains records, for each pair of start-adjacent     *)
(* domains prev and next, a hole [prev.end + margin, next.start - margin]  *)
(* exactly when that hole's end is greater than its start and its length   *)
(* is >= threshold, and no other hole; [1,50] and [61,100] with threshold  *)
(* 1 and margin 0 on 120 residues give exactly one hole [50,61] of length  *)
(* 12.                                                                     *)
C21_HolesBetweenAdjacentDomains ==
    hpc = "identified" =>
        LET sorted == SortByStart(NonHoles(hsys.domains))
            threshold == hargs[1][1]
            margin == hargs[1][2]
            pairs == QualifyingPairs(sorted, threshold, margin)
        IN /\ Len(hsys.holes) = Cardinality(pairs)
           /\ \A i \in pairs : \E k \in 1..Len(hsys.holes) :
                 /\ hsys.holes[k].start = sorted[i].end + margin
                 /\ hsys.holes[k].end = sorted[i + 1].start - margin
           /\ \A k \in 1..Len(hsys.holes) : \E i \in pairs :
                 /\ hsys.holes[k].start = sorted[i].end + margin
                 /\ hsys.holes[k].end = sorted[i + 1].start - margin
           /\ (NonHoles(hsys.domains) = TestSystemDomains /\ hsys.sys_len = TestSystemLen
                  /\ threshold = 1 /\ margin = 0)
                 => /\ Len(hsys.holes) = 1
                    /\ hsys.holes[1].start = 50
                    /\ hsys.holes[1].end = 61
                    /\ LengthOf(hsys.holes[1]) = 12

(* three domains, a hole between two of them and none between the others *)
C21_Witness ==
    /\ hpc = "identified"
    /\ Len(NonHoles(hsys.domains)) = 3
    /\ Len(hsys.holes) = 1
    /\ hargs[1][2] = 1

----------------------------------------------------------------------------
(* Specification SpecRegions: DomainService.find_inter_domain_regions       *)
(* applied to one list of valid Domain objects and one protein length      *)

(* the lists of at most MaxRegionDomains entries: domains on 0..RegionPos  *)
(* and gap entries                                                         *)
RegionInputs ==
    LET hits == {d \in {MkDomain("A", s, e, 10, None, DefaultProteinLength) :
                           s \in 0..RegionPos, e \in 0..RegionPos} : d.start <= d.end}
        gaps == {create_hole(s, RegionPos, RegionPos) : s \in 1..2}
    IN SeqsUpTo(hits \cup gaps, MaxRegionDomains)

InitRegions ==
    /\ fDomains \in RegionInputs
    /\ fLength \in 0..(RegionPos + 1)
    /\ fHoles = None
    /\ fpc = "call"
    /\ MergeIdle
    /\ OverlapIdle
    /\ FamilyIdle
    /\ HoleIdle
    /\ BatchIdle

(* DomainService.find_inter_domain_regions(domains, protein_length) *)
CallFindRegions ==
    /\ fpc = "call"
    /\ fHoles' = IF find_inter_domain_regions_raises(fDomains, fLength)
                 THEN Some([raised |-> TRUE, value |-> <<>>])
                 ELSE Some([raised |-> FALSE,
                            value |-> find_inter_domain_regions(fDomains, fLength)])
    /\ fpc' = "done"
    /\ UNCHANGED <<fDomains, fLength, mergeVars, overlapVars, familyVars, holeVars,
                   batchVars>>

NextRegions == CallFindRegions

SpecRegions == InitRegions /\ [][NextRegions]_vars

(* the maximal runs <<a, b>> of positions of 1..L that are in no entry of  *)
(* a list of domains                                                       *)
UncoveredRuns(domains, L) ==
    LET free == (1..L) \ PositionsOf(domains)
    IN {r \in (1..L) \X (1..L) :
           /\ r[1] <= r[2]
           /\ (r[1]..r[2]) \subseteq free
           /\ (r[1] - 1) \notin free
           /\ (r[2] + 1) \notin free}

(* C22: find_inter_domain_regions(domains, L) returns, in increasing       *)
(* order, exactly the maximal runs of positions in 1..L that no non-gap    *)
(* domain covers (none when the domains cover 1..L), for every list of     *)
(* valid domains including a domain whose start is 0.                      *)
C22_RegionsAreTheUncoveredRuns ==
    fpc = "done" =>
        /\ ~fHoles[1].raised
        /\ LET holes == fHoles[1].value
               runs == UncoveredRuns(NonHoles(fDomains), fLength)
           IN /\ {<<holes[k].start, holes[k].end>> : k \in 1..Len(holes)} = runs
              /\ Len(holes) = Cardinality(runs)
              /\ \A k \in 1..(Len(holes) - 1) : holes[k].start < holes[k + 1].start
              /\ \A k \in 1..Len(holes) : holes[k].type = "hole"

----------------------------------------------------------------------------
(* Specification SpecFamily: FamilyService.create_family for an input type *)
(* other than 'rescue', which returns the Family when __post_init__ has    *)
(* run (pc = "first"), and FamilyVisualizer.plot_architecture on it        *)

(* the families of at most MaxFamilySystems systems: a system has a        *)
(* sequence of FamilyPos residues and one or two hits, or one of twice     *)
(* FamilyPos residues and one hit, each hit over the same fifths of the    *)
(* sequence                                                                *)
FamilyInputs ==
    LET Rows(k) == {r \in [dom_id : {"A", "B"}, start : {k, 4 * k}, end : {2 * k, 5 * k},
                           bitscore : {10}, evalue : {EOne - 1}] : r.end = r.start + k}
        Systems(k, m) == {[sys_len |-> k * FamilyPos, rows |-> rows] :
                             rows \in {rows \in UNION {[1..n -> Rows(k)] : n \in 1..m} :
                                          SortedByStart(rows)}}
    IN SeqsUpTo(Systems(1, 2) \cup Systems(2, 1), MaxFamilySystems)

InitFamily ==
    /\ pc = "load"
    /\ idx = 0
    /\ merge_overlapping \in BOOLEAN
    /\ \E family_data \in FamilyInputs :
          /\ rescue_data = [i \in 1..Len(family_data) |-> family_data[i].rows]
          /\ systems = [i \in 1..Len(family_data) |->
                           LET sys_len == family_data[i].sys_len
                               domains == _get_domains(sys_len, family_data[i].rows)
                           IN System(sys_len, IF merge_overlapping
                                              THEN _merge_domains(domains, sys_len)
                                              ELSE domains)]
    /\ votes = <<>>
    /\ sorted_scores = <<>>
    /\ statistics = EmptyDict
    /\ characteristic_domains = {}
    /\ char_domain_map = None
    /\ MergeIdle
    /\ OverlapIdle
    /\ HoleIdle
    /\ BatchIdle
    /\ RegionIdle

(* FamilyVisualizer.plot_architecture(family), lines 218-264 *)
PlotArchitecture ==
    /\ pc = "first"
    /\ IF Len(systems) <= 2
       THEN /\ pc' = "skipped"
            /\ UNCHANGED char_domain_map
       ELSE /\ pc' = "plotted"
            /\ char_domain_map' = Some(plot_architecture(systems, characteristic_domains))
    /\ UNCHANGED <<idx, merge_overlapping, rescue_data, systems, votes, sorted_scores,
                   statistics, characteristic_domains, mergeVars, overlapVars,
                   holeVars, batchVars, regionVars>>

NextFamily == FamilyPostInit \/ PlotArchitecture

SpecFamily == InitFamily /\ [][NextFamily]_vars

(* the family's proteins that hold a non-gap hit of identity id *)
ProteinsWith(id) == {i \in 1..Len(systems) : id \in IdsOf(systems[i].domains)}

(* C23: after a Family is constructed, characteristic_domains contains     *)
(* exactly the identities that occur in at least 50% of the family's       *)
(* proteins, a protein counting once for an identity however many hits of  *)
(* that identity it has (an identity present in exactly half of the        *)
(* proteins is included).                                                  *)
C23_CharacteristicInHalfTheProteins ==
    pc \in {"first", "skipped", "plotted"} =>
        characteristic_domains =
            {id \in UNION {IdsOf(systems[i].domains) : i \in 1..Len(systems)} :
                2 * Cardinality(ProteinsWith(id)) >= Len(systems)}

(* the entries of system i named id, in the order of System.domains *)
HitsNamed(i, id) == SelectSeq(systems[i].domains, LAMBDA d : d.dom_id = id)

(* identity id has one hit in every protein, everywhere over the same      *)
(* (start / length, end / length)                                          *)
SamePairEverywhere(id) ==
    \A i \in 1..Len(systems) :
        /\ Len(HitsNamed(i, id)) = 1
        /\ FracEq(<<HitsNamed(i, id)[1].start, systems[i].sys_len>>,
                  <<HitsNamed(1, id)[1].start, systems[1].sys_len>>)
        /\ FracEq(<<HitsNamed(i, id)[1].end, systems[i].sys_len>>,
                  <<HitsNamed(1, id)[1].end, systems[1].sys_len>>)

RECURSIVE SumOver(_, _)
SumOver(f, S) ==
    IF S = {} THEN 0
    ELSE LET x == CHOOSE x \in S : TRUE IN f[x] + SumOver(f, S \ {x})

(* the smallest length that the length of every protein divides *)
CommonLength ==
    CHOOSE L \in 1..(2 * FamilyPos) :
        /\ \A i \in 1..Len(systems) : L % systems[i].sys_len = 0
        /\ \A M \in 1..(L - 1) : \E i \in 1..Len(systems) : M % systems[i].sys_len # 0

(* the proteins with exactly c hits of identity id *)
ProteinsWithCount(id, c) == {i \in 1..Len(systems) : Len(HitsNamed(i, id)) = c}

(* the mode of the non-zero per-protein counts of identity id, the         *)
(* smallest of the most frequent counts                                    *)
ModeCount(id) ==
    LET counts == {Len(HitsNamed(i, id)) : i \in 1..Len(systems)} \ {0}
    IN CHOOSE m \in counts :
          \A c \in counts :
              \/ Cardinality(ProteinsWithCount(id, m)) > Cardinality(ProteinsWithCount(id, c))
              \/ /\ Cardinality(ProteinsWithCount(id, m))
                       = Cardinality(ProteinsWithCount(id, c))
                 /\ m <= c

----------------------------------------------------------------------------
(* Claims about the coverage of the hits, checked under Spec *)

(* the construction has failed in _get_systems: the rows of a system were  *)
(* read and no System was built from them                                  *)
FailedInGetSystems == pc = "failed" /\ Len(rescue_data) > Len(systems)

(* C25: every DomainHit built by the pipeline has coverage in [0,1]: where *)
(* length / protein_length would fall outside that range (a hit whose end  *)
(* exceeds the protein length) the value is clamped, also for hits rebuilt *)
(* after merging, instead of the construction failing.                     *)
C25_CoverageClampedNotFailing ==
    /\ \A i \in 1..Len(systems) : \A k \in 1..Len(systems[i].domains) :
          /\ 0 <= systems[i].domains[k].coverage[1]
          /\ systems[i].domains[k].coverage[1] <= systems[i].domains[k].coverage[2]
    /\ ~FailedInGetSystems

----------------------------------------------------------------------------
(* Claims about the identity lookup and the statistics of a rescue family, *)
(* checked under Spec                                                      *)

(* the number of entries of the list hits that equal d *)
Occurrences(hits, d) == Cardinality({k \in 1..Len(hits) : hits[k] = d})

(* the list domain_map holds for identity id *)
Lookup(sys, id) == IF id \in DOMAIN sys.domain_map THEN sys.domain_map[id] ELSE <<>>

(* the non-gap hits of identity id in the domain sequence of sys *)
CurrentHits(sys, id) ==
    SelectSeq(sys.domains, LAMBDA d : d.type # "hole" /\ d.dom_id = id)

(* C27: after every step that changes a protein's domain sequence (merge,  *)
(* selection, substitution, fill_holes) domain_map maps each identity to   *)
(* exactly the non-gap hits of that identity currently in domains, each    *)
(* listed once.                                                            *)
C27_DomainMapIndexesCurrentDomains ==
    \A i \in 1..Len(systems) :
        \A id \in DOMAIN systems[i].domain_map \cup IdsOf(systems[i].domains) :
            \A d \in SeqToSet(Lookup(systems[i], id)) \cup SeqToSet(CurrentHits(systems[i], id)) :
                Occurrences(Lookup(systems[i], id), d) = Occurrences(CurrentHits(systems[i], id), d)

(* domain_frequencies.get(id, 0) *)
Frequency(id) == IF id \in DOMAIN statistics THEN statistics[id] ELSE 0

(* C28: for a rescue family the statistics available after construction    *)
(* are computed from the final resolved domain sets (after voting,         *)
(* substitution and hole filling): domain_frequencies[id] is the number of *)
(* non-gap hits of identity id in the final System.domains of the family.  *)
C28_StatisticsOfFinalDomains ==
    pc = "done" =>
        \A id \in DOMAIN statistics \cup UNION {IdsOf(systems[i].domains) : i \in 1..Len(systems)} :
            Frequency(id) = SumSeq([i \in 1..Len(systems) |-> CountId(systems[i].domains, id)])

----------------------------------------------------------------------------
(* Claim about the division of is_overlap, checked under SpecOverlap *)

(* C29: is_overlap never divides by zero: for every pair of valid hits     *)
(* (start <= end), single-position hits included, the shorter exclusive    *)
(* length is > 0 whenever the division is reached, and the call returns a  *)
(* boolean.                                                                *)
C29_NoDivisionByZero ==
    opc = "done" =>
        /\ ~oResult[1].raised
        /\ oResult[1].value \in BOOLEAN
        /\ Max(dom1[1].start, dom2[1].start) < Min(dom1[1].end, dom2[1].end)
              => ShorterLength(dom1[1], dom2[1]) > 0

(* a single-position hit compared with a longer hit that contains it *)
C29_Witness ==
    /\ opc = "done"
    /\ dom1[1].start = dom1[1].end
    /\ dom2[1].start <= dom1[1].start
    /\ dom1[1].end <= dom2[1].end
    /\ dom2[1].start < dom2[1].end
    /\ ~oResult[1].raised
    /\ oResult[1].value = FALSE

----------------------------------------------------------------------------
(* Claim about the second merge of a family, checked under Spec *)

(* the hit tuples merge_overlapping_domains is given for system sys *)
HitTuples(sys) == TuplesOf(NonHoles(sys.domains))

(* a step of Family.__post_init__ that merges the hits of the systems *)
SecondMergeStep == pc = "load" /\ pc' = "first" /\ merge_overlapping

(* C30: merge_overlapping_domains is idempotent: applied to its own output *)
(* it returns that output unchanged, so the second merge, performed by     *)
(* Family._merge_system_domains on hits FamilyService._merge_domains has   *)
(* merged, changes no interval, score or significance.                     *)
C30_SecondMergeChangesNothing ==
    [][SecondMergeStep =>
          \A i \in 1..Len(systems) :
              /\ merge_overlapping_domains(HitTuples(systems[i])) = HitTuples(systems[i])
              /\ HitTuples(systems'[i]) = HitTuples(systems[i])]_vars

(* the second merge has run on a system whose rows the first merge had     *)
(* merged into fewer hits, more than one of them                           *)
C30_Witness ==
    /\ pc = "first"
    /\ idx = 0
    /\ merge_overlapping
    /\ \E i \in 1..Len(systems) :
          /\ systems[i].sys_domains = <<>>
          /\ Len(HitTuples(systems[i])) < Len(rescue_data[i])
          /\ Len(HitTuples(systems[i])) >= 2

====
